---- MODULE Spec2Model ----
(***************************************************************************)
(* G4LumaCam: the analysis pipeline (lumacam/analysis.py) and the optics   *)
(* module (lumacam/optics.py) as state machines.                           *)
(*                                                                         *)
(* Units.  Times are integer nanoseconds, positions are integer pixels (or *)
(* hundredths of a millimetre for lens gaps).  A missing value (np.nan) is *)
(* the sentinel NaN; every arithmetic operator below propagates it the way *)
(* numpy/pandas do.                                                        *)
(***************************************************************************)
EXTENDS Integers, Sequences, FiniteSets, TLC

VARIABLES
    \* ---- merge_sim_and_recon_data (analysis.py:904-1051) ----
    simPhot,      \* merged_df rows: [nid, px, py, toa] (photon_px/py, toa2)
    recon,        \* recon_df rows: [nid, n, x, y, t]
    mNeutrons,    \* neutron ids the outer loop has still to visit (sorted)
    mQueue,       \* events of the current neutron still to match (sorted by t)
    merged,       \* merged_df['event_id'] per photon row (NaN = unassigned)
    mWrites,      \* per photon row: how many events have written into the row
    mLast,        \* the locals of the last iteration of the event loop
    \* ---- Lens.trace_rays for one simulation file (optics.py:619-764) ----
    tRays,        \* df: one entry per input row (the ray and its id columns)
    tChunkSize,   \* chunk_size
    tProcs,       \* n_processes
    tJoin,        \* join
    tPc,          \* "load", "pool", "written"
    tChunks,      \* index_chunks: the row indices of each chunk
    tState,       \* per chunk: "pending", "done" (returned), "taken" (by the parent)
    tOutcome,     \* per chunk: how its worker call ended
    tResult,      \* per chunk: the list the worker call returned
    tFinished,    \* the chunks in the order their workers finished
    tRWI,         \* results_with_indices
    tOut,         \* the rows written to traced_<file>.csv
    \* ---- Analysis.process_data / _run_import_photons (analysis.py:340-585) ----
    pFiles,       \* the traced_sim_data_*.csv files: "rows", "empty" or "bad"
    pEntry,       \* the method called: "process_data" or "_run_import_photons"
    pParallel,    \* the parallel argument of _run_import_photons
    pPc,          \* "import", "p2e", "binning", "read", "done", "raised"
    pRaisedIn,    \* the stage whose exception reached the caller ("none")
    pFileState,   \* per file: "todo", "running" (_process_single_file), "done"
    pCalls,       \* per file: calls of _process_single_file
    pToolRuns,    \* per file: runs of empir_import_photons
    pPhotonFiles, \* the .empirphot files in PhotonFiles (0: left by an earlier run)
    pTodo,        \* the .empirphot files the clustering loop has still to visit
    pGlobbed,     \* the .empirphot files the clustering loop started with
    pClustered,   \* the .empirphot files empir_photon2event has been run on
    pBin,         \* the empir_bin_events process: "no", "running", "returned"
    pBinned,      \* whether binned.empirevent exists
    \* ---- the imported-photon CSV files (analysis.py:351-366, 786-805) ----
    rTable,       \* traced photon rows: [x2, y2, toa2, nid]
    rOp,          \* "whole" (_process_single_file) or "by_neutron"
    rLeft,        \* by_neutron: the neutron groups the loop has still to visit
    rFiles,       \* the CSV files written: name -> rows [x, y, t, trel, src]
    \* ---- Analysis.__init__ (analysis.py:221-338) ----
    aData,        \* "given", or the state of TracedPhotons
    aSim,         \* "given", or the state of SimPhotons
    aEmpirDir,    \* whether empir_dirpath exists
    aPresent,     \* the files that exist in empir_dirpath
    aPc,          \* "data", "sim", "dir", "files", "ok", "raised"
    aError,       \* the exception raised ("none")
    aLeft,        \* the required files the loop has still to check
    aExecutables, \* self.executables: the attribute names entered so far
    \* ---- Lens.__init__ and Lens.refocus (optics.py:35-137, 443-532) ----
    lKind,        \* self.kind
    lFocusGiven,  \* whether the constructor's focus is not None
    lFocus,       \* the constructor's focus (0 when not given)
    lFocusGaps,   \* self.focus_gaps: the scaling factors (<<>> for None)
    lBuilt,       \* the focus gap thicknesses of the lens as built or loaded
    lDefault,     \* self.default_focus_gaps: the stored thicknesses
    lOpm0,        \* self.opm0: [obj, gaps]
    lOpm,         \* self.opm: [obj, gaps]
    lPc,          \* "new", "ready"
    lCalls,       \* the number of refocus calls made by the user
    lLast,        \* the last refocus call: [called, zscan, zfine, given, result]
    \* ---- Lens.zscan (optics.py:830-1003) ----
    zDataArg,    \* whether a DataFrame is passed as data
    zArchiveArg, \* the archive argument: "none", or the state of its SimPhotons
    zRays,       \* the ray tags of each source
    zFocusRange, \* zfocus_range: [iter, vals]
    zFineRange,  \* zfine_range: [iter, vals]
    zPc,         \* "load", "scan", "done", "raised"
    zError,      \* the exception raised ("none")
    zData,       \* the source the variable data holds after the selection
    zLeft,       \* the scan values still to process
    zResults,    \* results: scan value -> entry
    zTraced,     \* the sources whose rays have been traced
    \* ---- Lens.zscan_optimize (optics.py:1008-1335) ----
    oParam,      \* optimize_param
    oDataArg,    \* whether a DataFrame is passed as data
    oArchiveArg, \* the archive argument: "none", or the state of its SimPhotons
    oTotal,      \* the rows of the selected data with all essential columns
    oSelValid,   \* how many of them the lens traces to a valid position
    oLensValid,  \* how many rays of self.archive it traces to a valid position
    oInitial,    \* initial_zfocus, initial_zfine, initial_fnumber
    oCurrent,    \* current_zfocus, current_zfine, current_fnumber
    oPc,         \* "load", "zfocus", "zfine", "fnumber", "return", "done", "raised"
    oError,      \* the exception raised ("none")
    oBest,       \* results: the best_<parameter> entries
    oSummary,    \* results: min_std, traced_fraction, result and the stage that set them
    oRan,        \* the stages run: [stage, fixed, outcome]
    \* ---- the results folder (analysis.py:533-580, 691-696) ----
    fCalls,   \* the calls made: [entry, suffix, dir]
    fWritten, \* the files written: [dir, file]
    \* ---- Analysis.export_events (analysis.py:1101-1186) ----
    eSupplied,  \* enhanced_results: "none", "empty", "frame"
    eDefault,   \* ReconstructedEvents/events_with_shape_parameters.csv: "missing", "unreadable", "readable"
    eHasColumn, \* whether the table has a file_number column
    eTable,     \* the file_number of each event of the table supplied
    eStored,    \* the file_number of each event of the saved table
    eFailAt,    \* the write that raises (0: none)
    ePc,        \* "load", "write", "done"
    eEvents,    \* the table being exported
    eLeft,      \* the files still to write
    eFiles,     \* the files written: name -> rows
    eWrites,    \* the number of to_csv calls made
    eReturn,    \* "none", "True", "False"
    \* ---- Analysis.save_reconstructed_events (analysis.py:1188-1242) ----
    sTable,     \* enhanced_results: "none", "empty", "frame"
    sVerbosity, \* verbosity
    sColumns,   \* which of the reported columns the table has
    sWriteOk,   \* whether mkdir and to_csv succeed
    sPc,        \* "check", "write", "report", "done"
    sWritten,   \* whether events_with_shape_parameters.csv was written
    sReturn,    \* "none", "True", "False"
    \* ---- Analysis.process_and_export_events (analysis.py:1290-1356) ----
    wVerbosity, \* verbosity
    wEnhanced,  \* the number of events the shape step returns
    wSaveOk,    \* whether save_reconstructed_events returns True
    wExportOk,  \* whether export_events returns True
    wCleanupOk, \* what cleanup_temporary_folders would do if called
    wPc,        \* "shape", "save", "export", "cleanup", "return", "done"
    wSteps,     \* the steps invoked, in order
    wReturn,    \* "none", "enhanced_results"
    \* ---- BuildGeant4Simulation.run (setup.py:11-108) ----
    bFacts,    \* what the run meets: the folders that exist, the calls that succeed
    bPc,       \* "includes", "configure", "build", "binary", "copy", "macros", "data", "build_py", "done", "raised"
    bLog,      \* the external commands and build steps run, in order
    bError,    \* the exception raised ("none")
    bFailedAt  \* the step that raised ("none")

mergeVars == <<simPhot, recon, mNeutrons, mQueue, merged, mWrites, mLast>>

traceVars == <<tRays, tChunkSize, tProcs, tJoin, tPc, tChunks, tState,
               tOutcome, tResult, tFinished, tRWI, tOut>>

pipeVars == <<pFiles, pEntry, pParallel, pPc, pRaisedIn, pFileState, pCalls,
              pToolRuns, pPhotonFiles, pTodo, pGlobbed, pClustered, pBin, pBinned>>

rowVars == <<rTable, rOp, rLeft, rFiles>>

initVars == <<aData, aSim, aEmpirDir, aPresent, aPc, aError, aLeft, aExecutables>>

lensVars ==
    <<lKind, lFocusGiven, lFocus, lFocusGaps, lBuilt, lDefault, lOpm0, lOpm,
      lPc, lCalls, lLast>>

scanVars ==
    <<zDataArg, zArchiveArg, zRays, zFocusRange, zFineRange, zPc, zError, zData, zLeft, zResults, zTraced>>

optVars ==
    <<oParam, oDataArg, oArchiveArg, oTotal, oSelValid, oLensValid, oInitial, oCurrent, oPc, oError, oBest, oSummary, oRan>>

folderVars ==
    <<fCalls, fWritten>>

exportVars ==
    <<eSupplied, eDefault, eHasColumn, eTable, eStored, eFailAt, ePc, eEvents, eLeft, eFiles, eWrites, eReturn>>

saveVars ==
    <<sTable, sVerbosity, sColumns, sWriteOk, sPc, sWritten, sReturn>>

flowVars ==
    <<wVerbosity, wEnhanced, wSaveOk, wExportOk, wCleanupOk, wPc, wSteps, wReturn>>

buildVars ==
    <<bFacts, bPc, bLog, bError, bFailedAt>>

vars ==
    <<mergeVars, traceVars, pipeVars, rowVars, initVars, lensVars, scanVars, optVars, folderVars, exportVars, saveVars, flowVars, buildVars>>

(***************************************************************************)
(* Generic helpers                                                         *)
(***************************************************************************)
NaN == -1000

IsNaN(v) == v = NaN

Abs(v) == IF v < 0 THEN -v ELSE v

Range(s) == {s[i] : i \in DOMAIN s}

\* np.sqrt on the perfect squares the bounded inputs produce
Sqrt(v) == CHOOSE r \in 0..v : r * r = v

RECURSIVE SumOver(_, _)
SumOver(S, f) ==
    IF S = {} THEN 0
    ELSE LET i == CHOOSE j \in S : TRUE IN f[i] + SumOver(S \ {i}, f)

(***************************************************************************)
(* The operation a specification does not run is idle                      *)
(***************************************************************************)
TraceIdle ==
    /\ tRays = <<>>
    /\ tChunkSize = 0
    /\ tProcs = 0
    /\ tJoin = FALSE
    /\ tPc = "idle"
    /\ tChunks = <<>>
    /\ tState = <<>>
    /\ tOutcome = <<>>
    /\ tResult = <<>>
    /\ tFinished = <<>>
    /\ tRWI = <<>>
    /\ tOut = <<>>

PipeIdle ==
    /\ pFiles = <<>>
    /\ pEntry = "idle"
    /\ pParallel = FALSE
    /\ pPc = "idle"
    /\ pRaisedIn = "none"
    /\ pFileState = <<>>
    /\ pCalls = <<>>
    /\ pToolRuns = <<>>
    /\ pPhotonFiles = {}
    /\ pTodo = <<>>
    /\ pGlobbed = {}
    /\ pClustered = {}
    /\ pBin = "no"
    /\ pBinned = FALSE

RowsIdle ==
    /\ rTable = <<>>
    /\ rOp = "idle"
    /\ rLeft = <<>>
    /\ rFiles = <<>>

InitIdle ==
    /\ aData = "idle"
    /\ aSim = "idle"
    /\ aEmpirDir = FALSE
    /\ aPresent = {}
    /\ aPc = "idle"
    /\ aError = "none"
    /\ aLeft = <<>>
    /\ aExecutables = {}

NoModel == [obj |-> 0, gaps |-> <<>>]

NoCall ==
    [called |-> FALSE, zscan |-> 0, zfine |-> 0, given |-> FALSE, result |-> NoModel]

LensIdle ==
    /\ lKind = "idle"
    /\ lFocusGiven = FALSE
    /\ lFocus = 0
    /\ lFocusGaps = <<>>
    /\ lBuilt = <<>>
    /\ lDefault = <<>>
    /\ lOpm0 = NoModel
    /\ lOpm = NoModel
    /\ lPc = "idle"
    /\ lCalls = 0
    /\ lLast = NoCall

ScanIdle ==
    /\ zDataArg = FALSE
    /\ zArchiveArg = "idle"
    /\ zRays = <<>>
    /\ zFocusRange = <<>>
    /\ zFineRange = <<>>
    /\ zPc = "idle"
    /\ zError = "none"
    /\ zData = "none"
    /\ zLeft = <<>>
    /\ zResults = <<>>
    /\ zTraced = {}

OptimizeIdle ==
    /\ oParam = "idle"
    /\ oDataArg = FALSE
    /\ oArchiveArg = "idle"
    /\ oTotal = 0
    /\ oSelValid = 0
    /\ oLensValid = 0
    /\ oInitial = <<>>
    /\ oCurrent = <<>>
    /\ oPc = "idle"
    /\ oError = "none"
    /\ oBest = <<>>
    /\ oSummary = <<>>
    /\ oRan = <<>>

FolderIdle ==
    /\ fCalls = <<>>
    /\ fWritten = {}

ExportIdle ==
    /\ eSupplied = "idle"
    /\ eDefault = "idle"
    /\ eHasColumn = FALSE
    /\ eTable = <<>>
    /\ eStored = <<>>
    /\ eFailAt = 0
    /\ ePc = "idle"
    /\ eEvents = <<>>
    /\ eLeft = <<>>
    /\ eFiles = <<>>
    /\ eWrites = 0
    /\ eReturn = "none"

SaveIdle ==
    /\ sTable = "idle"
    /\ sVerbosity = 0
    /\ sColumns = {}
    /\ sWriteOk = FALSE
    /\ sPc = "idle"
    /\ sWritten = FALSE
    /\ sReturn = "none"

WorkflowIdle ==
    /\ wVerbosity = 0
    /\ wEnhanced = 0
    /\ wSaveOk = FALSE
    /\ wExportOk = FALSE
    /\ wCleanupOk = "idle"
    /\ wPc = "idle"
    /\ wSteps = <<>>
    /\ wReturn = "none"

BuildIdle ==
    /\ bFacts = {}
    /\ bPc = "idle"
    /\ bLog = <<>>
    /\ bError = "none"
    /\ bFailedAt = "none"

(***************************************************************************)
(* Bounds of the matching model                                            *)
(***************************************************************************)
NPhot == 3
NEvents == 2
MaxNeutron == 2
MaxNPhotons == 2

\* keyword defaults of process_data_event_by_event
DSpacePx == 4
TimeNormNs == 1
SpatialNormPx == 1

PhotPos == {<<NaN, NaN>>, <<0, 0>>, <<6, 8>>}
PhotToa == {0, 2}
EvPos == {<<0, 0>>, <<3, 4>>}
EvTime == {0, 1}

PhotRows ==
    {[nid |-> k, px |-> p[1], py |-> p[2], toa |-> t] :
        k \in 1..MaxNeutron, p \in PhotPos, t \in PhotToa}

EvRows ==
    {[nid |-> k, n |-> c, x |-> p[1], y |-> p[2], t |-> t] :
        k \in 1..MaxNeutron, c \in 1..MaxNPhotons, p \in EvPos, t \in EvTime}

\* The simulation writes its photons neutron by neutron, and the per-neutron
\* results are concatenated in the same order.
GroupedByNeutron(s) == \A i \in 1..(Len(s) - 1) : s[i].nid <= s[i + 1].nid

(***************************************************************************)
(* merge_sim_and_recon_data: the matching loop                             *)
(***************************************************************************)
\* sorted(merged_df['neutron_id'].unique())
RECURSIVE SortedSeq(_)
SortedSeq(S) ==
    IF S = {} THEN <<>>
    ELSE LET m == CHOOSE x \in S : \A y \in S : x <= y
         IN <<m>> \o SortedSeq(S \ {m})

UniqueNeutrons(phot) == SortedSeq({phot[i].nid : i \in DOMAIN phot})

\* merged_df[merged_df['neutron_id'] == neutron_id]: the row labels of the group,
\* in table order.  The group is taken once per neutron and never reduced.
SimGroup(nid) ==
    LET idx == {i \in DOMAIN simPhot : simPhot[i].nid = nid}
    IN SortedSeq(idx)

\* recon_group.sort_values('t [s]').reset_index(drop=True); event_id = index + 1
ReconGroup(nid) ==
    LET idx == {i \in DOMAIN recon : recon[i].nid = nid}
        Before(i, j) == \/ recon[i].t < recon[j].t
                        \/ recon[i].t = recon[j].t /\ i < j
        Rank(i) == Cardinality({j \in idx : Before(j, i)}) + 1
    IN [k \in 1..Cardinality(idx) |->
            LET i == CHOOSE j \in idx : Rank(j) = k
            IN [n |-> recon[i].n, x |-> recon[i].x, y |-> recon[i].y,
                t |-> recon[i].t, nid |-> nid, event_id |-> k]]

\* time_diffs = np.abs(sim_times * 1e-9 - recon_time_s) * 1e9
TimeDiff(p, ev) == IF IsNaN(p.toa) THEN NaN ELSE Abs(p.toa - ev.t)

\* spatial_diffs = np.sqrt((sim_px - recon_x)**2 + (sim_py - recon_y)**2)
SpatialDiff(p, ev) ==
    IF IsNaN(p.px) \/ IsNaN(p.py) THEN NaN
    ELSE Sqrt((p.px - ev.x) * (p.px - ev.x) + (p.py - ev.y) * (p.py - ev.y))

\* np.all(np.isnan(sim_px)) or np.all(np.isnan(sim_py)) or np.all(np.isnan(sim_times))
AllMissing(grp) ==
    \/ \A k \in DOMAIN grp : IsNaN(simPhot[grp[k]].px)
    \/ \A k \in DOMAIN grp : IsNaN(simPhot[grp[k]].py)
    \/ \A k \in DOMAIN grp : IsNaN(simPhot[grp[k]].toa)

\* combined_diffs, by position in the group
CombinedDiffs(grp, ev) ==
    [k \in DOMAIN grp |->
        LET p == simPhot[grp[k]]
            td == TimeDiff(p, ev)
            sd == SpatialDiff(p, ev)
        IN IF AllMissing(grp)
           THEN IF IsNaN(td) THEN NaN ELSE td \div TimeNormNs
           ELSE IF IsNaN(td) \/ IsNaN(sd) THEN NaN
                ELSE (td \div TimeNormNs) + (sd \div SpatialNormPx)]

\* np.argmin: the first NaN when there is one, else the first minimum
ArgMin(d) ==
    IF \E k \in DOMAIN d : IsNaN(d[k])
    THEN CHOOSE k \in DOMAIN d : IsNaN(d[k]) /\ \A j \in 1..(k - 1) : ~IsNaN(d[j])
    ELSE CHOOSE k \in DOMAIN d :
            /\ \A j \in DOMAIN d : d[k] <= d[j]
            /\ \A j \in 1..(k - 1) : d[j] > d[k]

\* np.argsort(d)[:n]: ascending, NaN last, ties in index order
SortsBefore(d, j, k) ==
    \/ ~IsNaN(d[j]) /\ IsNaN(d[k])
    \/ ~IsNaN(d[j]) /\ ~IsNaN(d[k]) /\ d[j] < d[k]
    \/ (IsNaN(d[j]) <=> IsNaN(d[k])) /\ (IsNaN(d[j]) \/ d[j] = d[k]) /\ j < k

ArgSortFirst(d, n) ==
    {k \in DOMAIN d : Cardinality({j \in DOMAIN d : SortsBefore(d, j, k)}) < n}

\* com_dist > dSpace_px for the selected rows (pandas mean skips NaN); the test is
\* made only when the selected photons are not all missing, and the comparison
\* is made on squares, scaled by the number of photons averaged
ComTooFar(rows, ev) ==
    LET withX == {i \in rows : ~IsNaN(simPhot[i].px)}
        withY == {i \in rows : ~IsNaN(simPhot[i].py)}
        sx == SumOver(withX, [i \in withX |-> simPhot[i].px])
        sy == SumOver(withY, [i \in withY |-> simPhot[i].py])
        cx == Cardinality(withX)
        cy == Cardinality(withY)
        \* (sx/cx - x)^2 + (sy/cy - y)^2 > d^2, multiplied by (cx*cy)^2
        ex == (sx - cx * ev.x) * cy
        ey == (sy - cy * ev.y) * cx
    IN /\ withX # {}
       /\ withY # {}
       /\ ex * ex + ey * ey > (DSpacePx * cx * cy) * (DSpacePx * cx * cy)

\* the positions of the group that one event selects and writes, and whether the
\* centre-of-mass test skipped the event (analysis.py:1012-1040)
Selection(grp, ev) ==
    LET d == CombinedDiffs(grp, ev)
    IN IF ev.n = 1
       THEN IF Len(grp) > 0
            THEN [sel |-> {ArgMin(d)}, skipped |-> FALSE, write |-> {ArgMin(d)}]
            ELSE [sel |-> {}, skipped |-> FALSE, write |-> {}]
       ELSE IF Len(grp) >= ev.n
            THEN LET s == ArgSortFirst(d, ev.n)
                 IN IF ComTooFar({grp[k] : k \in s}, ev)
                    THEN [sel |-> s, skipped |-> TRUE, write |-> {}]
                    ELSE [sel |-> s, skipped |-> FALSE, write |-> s]
            ELSE [sel |-> {}, skipped |-> FALSE, write |-> {}]

NoLast == [nid |-> 0, event_id |-> 0, n |-> 0, x |-> 0, y |-> 0, t |-> 0,
           sel |-> {}, write |-> {}, skipped |-> FALSE]

MergeIdle ==
    /\ simPhot = <<>>
    /\ recon = <<>>
    /\ mNeutrons = <<>>
    /\ mQueue = <<>>
    /\ merged = <<>>
    /\ mWrites = <<>>
    /\ mLast = NoLast

MergeInit ==
    /\ simPhot \in {s \in [1..NPhot -> PhotRows] : GroupedByNeutron(s)}
    /\ recon \in {s \in [1..NEvents -> EvRows] : GroupedByNeutron(s)}
    /\ mNeutrons = UniqueNeutrons(simPhot)
    /\ mQueue = <<>>
    /\ merged = [i \in 1..NPhot |-> NaN]
    /\ mWrites = [i \in 1..NPhot |-> 0]
    /\ mLast = NoLast
    /\ TraceIdle
    /\ PipeIdle
    /\ RowsIdle
    /\ InitIdle
    /\ LensIdle
    /\ ScanIdle
    /\ OptimizeIdle
    /\ FolderIdle
    /\ ExportIdle
    /\ SaveIdle
    /\ WorkflowIdle
    /\ BuildIdle

\* for neutron_id in sorted(...): take the neutron's events (continue when none)
NextNeutron ==
    /\ mQueue = <<>>
    /\ mNeutrons # <<>>
    /\ mQueue' = ReconGroup(Head(mNeutrons))
    /\ mNeutrons' = Tail(mNeutrons)
    /\ UNCHANGED <<simPhot, recon, merged, mWrites, mLast>>
    /\ UNCHANGED <<traceVars, pipeVars, rowVars, initVars, lensVars, scanVars, optVars, folderVars, exportVars, saveVars, flowVars, buildVars>>

\* one iteration of `for _, recon_row in recon_group.iterrows()`
MatchEvent ==
    /\ mQueue # <<>>
    /\ LET ev == Head(mQueue)
           grp == SimGroup(ev.nid)
           r == Selection(grp, ev)
           rows == {grp[k] : k \in r.write}
       IN /\ merged' = [i \in 1..NPhot |->
                            IF i \in rows THEN ev.event_id ELSE merged[i]]
          /\ mWrites' = [i \in 1..NPhot |->
                            IF i \in rows THEN mWrites[i] + 1 ELSE mWrites[i]]
          /\ mLast' = [nid |-> ev.nid, event_id |-> ev.event_id, n |-> ev.n,
                       x |-> ev.x, y |-> ev.y, t |-> ev.t,
                       sel |-> {grp[k] : k \in r.sel},
                       write |-> rows, skipped |-> r.skipped]
    /\ mQueue' = Tail(mQueue)
    /\ UNCHANGED <<simPhot, recon, mNeutrons>>
    /\ UNCHANGED <<traceVars, pipeVars, rowVars, initVars, lensVars, scanVars, optVars, folderVars, exportVars, saveVars, flowVars, buildVars>>

MergeNext == NextNeutron \/ MatchEvent

SpecMerge == MergeInit /\ [][MergeNext]_vars

(***************************************************************************)
(* Claims about the matching                                               *)
(***************************************************************************)
\* C1: after the events of a neutron are processed no simulated photon row has
\* been assigned to more than one reconstructed event: an event is matched
\* only against the photons not yet assigned, so no row is written twice.
C1_NoPhotonAssignedTwice == \A i \in 1..NPhot : mWrites[i] <= 1

\* C2: whatever the photon count of the event (single-photon events included),
\* an event whose selected photons have their centre of mass farther than
\* dSpace_px from the event position writes nothing into the merged table.
C2_FarEventWritesNothing ==
    (mLast.event_id # 0 /\ ComTooFar(mLast.sel, mLast)) => mLast.write = {}

\* combined distance of row i to the last event, NaN ordered after every number
LastDiff(i) ==
    LET grp == SimGroup(mLast.nid)
        d == CombinedDiffs(grp, mLast)
        k == CHOOSE j \in DOMAIN grp : grp[j] = i
    IN d[k]

StrictlyCloser(i, j) ==
    /\ ~IsNaN(LastDiff(i))
    /\ IsNaN(LastDiff(j)) \/ LastDiff(i) < LastDiff(j)

\* C3: an event with photon count n that the centre-of-mass test does not skip
\* marks exactly n photons of its neutron group, none of them farther (in
\* combined distance) than an unmarked photon of the group; when the group
\* holds fewer than n photons it marks none.
C3_MarksTheNClosest ==
    (mLast.event_id # 0 /\ ~mLast.skipped) =>
        LET grp == Range(SimGroup(mLast.nid))
        IN IF Cardinality(grp) >= mLast.n
           THEN /\ mLast.write \subseteq grp
                /\ Cardinality(mLast.write) = mLast.n
                /\ \A i \in mLast.write : \A j \in grp \ mLast.write :
                        ~StrictlyCloser(j, i)
           ELSE mLast.write = {}

(***************************************************************************)
(* Lens.trace_rays: one simulation file through the worker pool            *)
(***************************************************************************)
MaxRays == 3
MaxChunkSize == 2
MaxProcs == 2

\* A ray is named by a tag; its id columns (id, neutron_id, toa) carry the same
\* tag.  Tag 0 is a ray the lens cannot trace, tag 1 a ray it traces.
RayTags == {0, 1}

\* entries of a chunk result that are not a traced ray
NoneEntry == -1
ErrEntry == -2

\* analyses.trace_list_of_rays on one ray (rayerr_filter="summary"): the traced
\* position, or an error object that does not unpack into (ray, path, wvl)
TraceRay(tag) == IF tag = 0 THEN ErrEntry ELSE 10 + tag

\* rays[i:end] for i in range(0, len(rays), chunk_size); rows are numbered from 1
NumChunks(n, cs) == (n + cs - 1) \div cs

IndexChunks(n, cs) ==
    [k \in 1..NumChunks(n, cs) |->
        [j \in 1..(IF k * cs <= n THEN cs ELSE n - (k - 1) * cs) |->
            (k - 1) * cs + j]]

\* what _process_ray_chunk returns to the parent, by the way the call ended:
\* the traced list, [None] * len(chunk) after an exception, or a list
\* trace_list_of_rays made too short or too long (it never returns None)
ChunkOutcomes == {"ok", "fail", "short", "long"}

TracedList(idx) == [j \in DOMAIN idx |-> TraceRay(tRays[idx[j]])]

WorkerReturn(idx, outcome) ==
    CASE outcome = "ok" -> TracedList(idx)
      [] outcome = "fail" -> [j \in DOMAIN idx |-> NoneEntry]
      [] outcome = "short" -> SubSeq(TracedList(idx), 1, Len(idx) - 1)
      [] outcome = "long" -> Append(TracedList(idx), TraceRay(tRays[idx[1]]))

\* optics.py:680-688: the chunk result brought to the length of its indices
NormalizeChunk(res, idx) ==
    IF Len(res) < Len(idx)
    THEN res \o [j \in 1..(Len(idx) - Len(res)) |-> NoneEntry]
    ELSE SubSeq(res, 1, Len(idx))

\* pool.imap: the parent receives the chunk results in submission order
\* (imap_unordered would hand over whichever finished chunk is at hand)
ImapUnordered(taken) ==
    IF \E k \in DOMAIN tState : tState[k] = "done"
    THEN CHOOSE k \in DOMAIN tState :
            /\ tState[k] = "done"
            /\ \A j \in DOMAIN tState : tState[j] = "done" => j <= k
    ELSE taken + 1

ImapNext(taken) == taken + 1

\* results_with_indices.sort(key=lambda x: x[1]) (stable)
SortByIndex(rwi) ==
    LET Before(a, b) == rwi[a][2] < rwi[b][2] \/ (rwi[a][2] = rwi[b][2] /\ a < b)
        Rank(a) == Cardinality({b \in DOMAIN rwi : Before(b, a)}) + 1
    IN [k \in DOMAIN rwi |-> rwi[CHOOSE a \in DOMAIN rwi : Rank(a) = k]]

\* optics.py:705-714: missing row indices get a None entry, a surplus is cut
FillMissing(rwi, n) ==
    IF Len(rwi) = n THEN rwi
    ELSE IF Len(rwi) < n
         THEN LET have == {rwi[a][2] : a \in DOMAIN rwi}
                  missing == SortedSeq((1..n) \ have)
              IN SortByIndex(rwi \o [a \in DOMAIN missing |-> <<NoneEntry, missing[a]>>])
         ELSE SubSeq(rwi, 1, n)

\* optics.py:716-736: x2 of one entry (None and entries that do not unpack: NaN)
EntryX2Zero(entry) == IF entry = NoneEntry \/ entry = ErrEntry THEN 0 ELSE entry

EntryX2(entry) == IF entry = NoneEntry \/ entry = ErrEntry THEN NaN ELSE entry

\* optics.py:738-754: result_df sorted by _row_index, then either merged onto df
\* by _row_index (join) or given the id columns of df by position
ResultRows(rwi, join) ==
    LET sorted == SortByIndex(rwi)
        resultDf == [k \in DOMAIN sorted |->
                        [rowIndex |-> sorted[k][2], x2 |-> EntryX2(sorted[k][1])]]
    IN IF join
       THEN [i \in DOMAIN tRays |->
                IF i \in DOMAIN resultDf
                THEN [rowIndex |-> i, x2 |-> resultDf[i].x2, id |-> tRays[i]]
                ELSE [rowIndex |-> i, x2 |-> NaN, id |-> tRays[i]]]
       ELSE [k \in DOMAIN resultDf |->
                [rowIndex |-> resultDf[k].rowIndex, x2 |-> resultDf[k].x2,
                 id |-> tRays[k]]]

TraceInit ==
    /\ tRays \in UNION {[1..n -> RayTags] : n \in 1..MaxRays}
    /\ tChunkSize \in 1..MaxChunkSize
    /\ tProcs \in 1..MaxProcs
    /\ tJoin \in BOOLEAN
    /\ tPc = "load"
    /\ tChunks = <<>>
    /\ tState = <<>>
    /\ tOutcome = <<>>
    /\ tResult = <<>>
    /\ tFinished = <<>>
    /\ tRWI = <<>>
    /\ tOut = <<>>
    /\ MergeIdle
    /\ PipeIdle
    /\ RowsIdle
    /\ InitIdle
    /\ LensIdle
    /\ ScanIdle
    /\ OptimizeIdle
    /\ FolderIdle
    /\ ExportIdle
    /\ SaveIdle
    /\ WorkflowIdle
    /\ BuildIdle

\* optics.py:631-668: number the rows, split them into chunks, open the pool
SplitChunks ==
    /\ tPc = "load"
    /\ tChunks' = IndexChunks(Len(tRays), tChunkSize)
    /\ tState' = [k \in 1..NumChunks(Len(tRays), tChunkSize) |-> "pending"]
    /\ tOutcome' = [k \in 1..NumChunks(Len(tRays), tChunkSize) |-> "none yet"]
    /\ tResult' = [k \in 1..NumChunks(Len(tRays), tChunkSize) |-> <<>>]
    /\ tPc' = "pool"
    /\ UNCHANGED <<tRays, tChunkSize, tProcs, tJoin, tFinished, tRWI, tOut>>
    /\ UNCHANGED <<mergeVars, pipeVars, rowVars, initVars, lensVars, scanVars, optVars, folderVars, exportVars, saveVars, flowVars, buildVars>>

\* The pool hands the chunks to its workers in submission order, so the chunks
\* being worked on are the first n_processes chunks that have not finished.
InWorker(k) ==
    /\ tState[k] = "pending"
    /\ Cardinality({j \in 1..(k - 1) : tState[j] = "pending"}) < tProcs

\* a worker returns from _process_ray_chunk; workers finish in any order
WorkerFinish ==
    /\ tPc = "pool"
    /\ \E k \in DOMAIN tState, o \in ChunkOutcomes :
        /\ InWorker(k)
        /\ tState' = [tState EXCEPT ![k] = "done"]
        /\ tOutcome' = [tOutcome EXCEPT ![k] = o]
        /\ tResult' = [tResult EXCEPT ![k] = WorkerReturn(tChunks[k], o)]
        /\ tFinished' = Append(tFinished, k)
    /\ UNCHANGED <<tRays, tChunkSize, tProcs, tJoin, tPc, tChunks, tRWI, tOut>>
    /\ UNCHANGED <<mergeVars, pipeVars, rowVars, initVars, lensVars, scanVars, optVars, folderVars, exportVars, saveVars, flowVars, buildVars>>

\* one iteration of the loop over zip(pool.imap(...), index_chunks)
Collect ==
    /\ tPc = "pool"
    /\ LET taken == Cardinality({k \in DOMAIN tState : tState[k] = "taken"})
           src == ImapNext(taken)
           idx == tChunks[taken + 1]
       IN /\ taken < Len(tChunks)
          /\ src \in DOMAIN tState
          /\ tState[src] = "done"
          /\ LET res == NormalizeChunk(tResult[src], idx)
             IN tRWI' = tRWI \o [j \in DOMAIN idx |-> <<res[j], idx[j]>>]
          /\ tState' = [tState EXCEPT ![src] = "taken"]
    /\ UNCHANGED <<tRays, tChunkSize, tProcs, tJoin, tPc, tChunks, tOutcome,
                   tResult, tFinished, tOut>>
    /\ UNCHANGED <<mergeVars, pipeVars, rowVars, initVars, lensVars, scanVars, optVars, folderVars, exportVars, saveVars, flowVars, buildVars>>

\* optics.py:692-764: the pool is closed, the rows are built and written
WriteTraced ==
    /\ tPc = "pool"
    /\ \A k \in DOMAIN tState : tState[k] = "taken"
    /\ tOut' = ResultRows(FillMissing(SortByIndex(tRWI), Len(tRays)), tJoin)
    /\ tPc' = "written"
    /\ UNCHANGED <<tRays, tChunkSize, tProcs, tJoin, tChunks, tState, tOutcome,
                   tResult, tFinished, tRWI>>
    /\ UNCHANGED <<mergeVars, pipeVars, rowVars, initVars, lensVars, scanVars, optVars, folderVars, exportVars, saveVars, flowVars, buildVars>>

TraceNext == SplitChunks \/ WorkerFinish \/ Collect \/ WriteTraced

SpecTrace == TraceInit /\ [][TraceNext]_vars

\* the chunk that holds row i
ChunkOf(i) == CHOOSE k \in DOMAIN tChunks : i \in Range(tChunks[k])

\* the x2 a ray gets when it is traced on its own: missing when it cannot be traced
OwnX2(tag) == IF TraceRay(tag) = ErrEntry THEN NaN ELSE TraceRay(tag)

\* C5: the traced output has exactly one row per input ray, in input row order,
\* whatever the number of workers, the chunk size and the order in which the
\* workers finish: row i is built from row index i, carries the traced position
\* of ray i whenever its chunk returned its results, and (join=False) the id
\* columns of input row i.
C5_OneRowPerRayInOrder ==
    tPc = "written" =>
        /\ Len(tOut) = Len(tRays)
        /\ \A i \in DOMAIN tOut :
            /\ tOut[i].rowIndex = i
            /\ tOutcome[ChunkOf(i)] = "ok" => tOut[i].x2 = OwnX2(tRays[i])
            /\ ~tJoin => tOut[i].id = tRays[i]

\* a file of three rays in two chunks whose second chunk finished first
C5_Witness ==
    /\ tPc = "written"
    /\ ~tJoin
    /\ Len(tRays) = 3
    /\ tFinished = <<2, 1>>
    /\ tRays[1] # tRays[3]
    /\ tProcs = 2
    /\ tOutcome[1] = "ok"
    /\ tOutcome[2] = "ok"

\* C6: a chunk that fails inside its worker leaves trace_rays running to its
\* output: the rays of the failed chunk have x2 missing, the rays of a chunk
\* that returned its results keep their own traced position, and a chunk that
\* returned too few or too many results still has one output row per ray.
C6_FailedChunkIsolated ==
    /\ tPc \in {"load", "pool"} => ENABLED TraceNext
    /\ tPc = "written" =>
        /\ \A k \in DOMAIN tChunks :
            Cardinality({i \in DOMAIN tOut : tOut[i].rowIndex \in Range(tChunks[k])})
                = Len(tChunks[k])
        /\ \A i \in DOMAIN tOut :
            LET o == tOutcome[ChunkOf(tOut[i].rowIndex)]
            IN /\ o = "fail" => IsNaN(tOut[i].x2)
               /\ o \in {"ok", "long"} =>
                    tOut[i].x2 = OwnX2(tRays[tOut[i].rowIndex])

\* one chunk failed, another chunk traced a ray, a third result list was short
C6_Witness ==
    /\ tPc = "written"
    /\ \E k \in DOMAIN tChunks : tOutcome[k] = "fail"
    /\ \E k \in DOMAIN tChunks :
        /\ tOutcome[k] = "ok"
        /\ \E j \in DOMAIN tChunks[k] : ~IsNaN(tOut[tChunks[k][j]].x2)
    /\ \E k \in DOMAIN tChunks : tOutcome[k] \in {"short", "long"}

(***************************************************************************)
(* Analysis.process_data: import, clustering, binning, read-back           *)
(***************************************************************************)
MaxFiles == 3
MaxWorkers == 2

FileKinds == {"rows", "empty", "bad"}

\* how _process_single_file ends on a file: the import tool is run, the empty
\* file is skipped, or the exception is caught and reported
FileOutcomeUncaught(kind) ==
    CASE kind = "rows" -> "imported"
      [] kind = "empty" -> "skipped"
      [] kind = "bad" -> "raised"

FileOutcome(kind) ==
    CASE kind = "rows" -> "imported"
      [] kind = "empty" -> "skipped"
      [] kind = "bad" -> "caught"

\* list(pool.imap_unordered(...)) inside `with Pool()`, or the for loop, has
\* gone through every file
ImportNoWait == TRUE

ImportComplete == \A f \in DOMAIN pFiles : pFileState[f] = "done"

PipeInit ==
    /\ pFiles \in UNION {[1..n -> FileKinds] : n \in 0..MaxFiles}
    /\ pEntry \in {"process_data", "_run_import_photons"}
    /\ pParallel \in BOOLEAN
    /\ pEntry = "process_data" => pParallel
    /\ pPc = "import"
    /\ pRaisedIn = "none"
    /\ pFileState = [f \in DOMAIN pFiles |-> "todo"]
    /\ pCalls = [f \in DOMAIN pFiles |-> 0]
    /\ pToolRuns = [f \in DOMAIN pFiles |-> 0]
    /\ pPhotonFiles \in {{}, {0}}
    /\ pTodo = <<>>
    /\ pGlobbed = {}
    /\ pClustered = {}
    /\ pBin = "no"
    /\ pBinned = FALSE
    /\ MergeIdle
    /\ TraceIdle
    /\ RowsIdle
    /\ InitIdle
    /\ LensIdle
    /\ ScanIdle
    /\ OptimizeIdle
    /\ FolderIdle
    /\ ExportIdle
    /\ SaveIdle
    /\ WorkflowIdle
    /\ BuildIdle

\* _process_single_file is entered for a file: by the next free pool worker, or
\* by the for loop when the call for the file before has returned
ImportStart ==
    /\ pPc = "import"
    /\ \E f \in DOMAIN pFiles :
        /\ pFileState[f] = "todo"
        /\ \A g \in 1..(f - 1) : pFileState[g] # "todo"
        /\ LET running == Cardinality({g \in DOMAIN pFiles : pFileState[g] = "running"})
           IN IF pParallel THEN running < MaxWorkers ELSE running = 0
        /\ pFileState' = [pFileState EXCEPT ![f] = "running"]
        /\ pCalls' = [pCalls EXCEPT ![f] = @ + 1]
    /\ UNCHANGED <<pFiles, pEntry, pParallel, pPc, pRaisedIn, pToolRuns,
                   pPhotonFiles, pTodo, pGlobbed, pClustered, pBin, pBinned>>
    /\ UNCHANGED <<mergeVars, traceVars, rowVars, initVars, lensVars, scanVars, optVars, folderVars, exportVars, saveVars, flowVars, buildVars>>

\* _process_single_file returns (analysis.py:344-376); os.system blocks until
\* the import tool has ended, whether or not it wrote the .empirphot file
ImportFinish ==
    /\ pPc = "import"
    /\ \E f \in DOMAIN pFiles, wrote \in BOOLEAN :
        /\ pFileState[f] = "running"
        /\ LET o == FileOutcome(pFiles[f])
           IN /\ pFileState' = [pFileState EXCEPT ![f] = "done"]
              /\ pToolRuns' = [pToolRuns EXCEPT ![f] = IF o = "imported" THEN @ + 1 ELSE @]
              /\ pPhotonFiles' = IF o = "imported" /\ wrote
                                 THEN pPhotonFiles \cup {f} ELSE pPhotonFiles
              /\ pPc' = IF o = "raised" THEN "raised" ELSE pPc
              /\ pRaisedIn' = IF o = "raised" THEN "import" ELSE pRaisedIn
    /\ UNCHANGED <<pFiles, pEntry, pParallel, pCalls, pTodo, pGlobbed,
                   pClustered, pBin, pBinned>>
    /\ UNCHANGED <<mergeVars, traceVars, rowVars, initVars, lensVars, scanVars, optVars, folderVars, exportVars, saveVars, flowVars, buildVars>>

\* _run_import_photons returns; process_data goes on to _run_photon2event, which
\* lists the .empirphot files and raises FileNotFoundError when there is none
ImportReturn ==
    /\ pPc = "import"
    /\ ImportComplete
    /\ IF pEntry = "_run_import_photons"
       THEN /\ pPc' = "done"
            /\ UNCHANGED <<pRaisedIn, pTodo, pGlobbed>>
       ELSE IF pPhotonFiles = {}
            THEN /\ pPc' = "raised"
                 /\ pRaisedIn' = "p2e"
                 /\ UNCHANGED <<pTodo, pGlobbed>>
            ELSE /\ pPc' = "p2e"
                 /\ pTodo' = SortedSeq(pPhotonFiles)
                 /\ pGlobbed' = pPhotonFiles
                 /\ UNCHANGED pRaisedIn
    /\ UNCHANGED <<pFiles, pEntry, pParallel, pFileState, pCalls, pToolRuns,
                   pPhotonFiles, pClustered, pBin, pBinned>>
    /\ UNCHANGED <<mergeVars, traceVars, rowVars, initVars, lensVars, scanVars, optVars, folderVars, exportVars, saveVars, flowVars, buildVars>>

\* one iteration of `for empirphot_file in empirphot_files`: subprocess.run of
\* empir_photon2event, which blocks until the tool has ended
ClusterRun ==
    /\ pPc = "p2e"
    /\ pTodo # <<>>
    /\ pClustered' = pClustered \cup {Head(pTodo)}
    /\ pTodo' = Tail(pTodo)
    /\ UNCHANGED <<pFiles, pEntry, pParallel, pPc, pRaisedIn, pFileState, pCalls,
                   pToolRuns, pPhotonFiles, pGlobbed, pBin, pBinned>>
    /\ UNCHANGED <<mergeVars, traceVars, rowVars, initVars, lensVars, scanVars, optVars, folderVars, exportVars, saveVars, flowVars, buildVars>>

\* _run_photon2event has returned; _run_event_binning starts empir_bin_events
BinStart ==
    /\ pPc = "p2e"
    /\ pTodo = <<>>
    /\ pPc' = "binning"
    /\ pBin' = "running"
    /\ UNCHANGED <<pFiles, pEntry, pParallel, pRaisedIn, pFileState, pCalls,
                   pToolRuns, pPhotonFiles, pTodo, pGlobbed, pClustered, pBinned>>
    /\ UNCHANGED <<mergeVars, traceVars, rowVars, initVars, lensVars, scanVars, optVars, folderVars, exportVars, saveVars, flowVars, buildVars>>

\* subprocess.run returns: the binning tool has ended, with or without output
BinReturn ==
    /\ pPc = "binning"
    /\ pBin = "running"
    /\ pBin' = "returned"
    /\ pBinned' \in BOOLEAN
    /\ pPc' = "read"
    /\ UNCHANGED <<pFiles, pEntry, pParallel, pRaisedIn, pFileState, pCalls,
                   pToolRuns, pPhotonFiles, pTodo, pGlobbed, pClustered>>
    /\ UNCHANGED <<mergeVars, traceVars, rowVars, initVars, lensVars, scanVars, optVars, folderVars, exportVars, saveVars, flowVars, buildVars>>

\* _read_binned_data: pd.read_csv of binned.empirevent
ReadBinned ==
    /\ pPc = "read"
    /\ pPc' = IF pBinned THEN "done" ELSE "raised"
    /\ pRaisedIn' = IF pBinned THEN pRaisedIn ELSE "read"
    /\ UNCHANGED <<pFiles, pEntry, pParallel, pFileState, pCalls, pToolRuns,
                   pPhotonFiles, pTodo, pGlobbed, pClustered, pBin, pBinned>>
    /\ UNCHANGED <<mergeVars, traceVars, rowVars, initVars, lensVars, scanVars, optVars, folderVars, exportVars, saveVars, flowVars, buildVars>>

PipeNext ==
    \/ ImportStart \/ ImportFinish \/ ImportReturn
    \/ ClusterRun \/ BinStart \/ BinReturn \/ ReadBinned

SpecPipe == PipeInit /\ [][PipeNext]_vars

C7_EveryFileImportedOnce ==
    /\ \A f \in DOMAIN pFiles : pCalls[f] <= 1
    /\ pRaisedIn # "import"
    /\ pPc # "import" =>
            \A f \in DOMAIN pFiles :
                /\ pCalls[f] = 1
                /\ pFileState[f] = "done"
                /\ pToolRuns[f] = IF pFiles[f] = "rows" THEN 1 ELSE 0

\* a sequential run over an unreadable, an empty and a good file, in that order
C7_Witness ==
    /\ pEntry = "_run_import_photons"
    /\ ~pParallel
    /\ pPc = "done"
    /\ pFiles = <<"bad", "empty", "rows">>
    /\ pToolRuns[3] = 1

(***************************************************************************)
(* The imported-photon CSV: _process_single_file and the per-neutron import *)
(***************************************************************************)
MaxRows == 3

\* toa2 is in nanoseconds; "t [s]" = toa2 * 1e-9 is kept in half seconds
HalfSecondNs == 500000000

\* the end of the time window, 1 s, in half seconds
WindowEnd == 2

\* x2, y2 in mm (one of them may be missing) and toa2 in ns: missing, before the
\* trigger, at the trigger, inside the window, at the end of the window
RowPos == {<<NaN, 5>>, <<0, NaN>>, <<0, 5>>}
RowToa == {NaN, -HalfSecondNs, 0, HalfSecondNs, 2 * HalfSecondNs}

TracedRows ==
    {[x2 |-> p[1], y2 |-> p[2], toa2 |-> t, nid |-> k] :
        p \in RowPos, t \in RowToa, k \in 1..MaxNeutron}

\* df[["x2", "y2", "toa2"]].dropna()
Complete(r) == ~IsNaN(r.x2) /\ ~IsNaN(r.y2) /\ ~IsNaN(r.toa2)

\* df["toa2"] *= 1e-9
ToSeconds(toa2) == toa2 \div HalfSecondNs

\* (x2 + 10) / 10 * 128, in tenths of a pixel
ToPixel(mm) == (mm + 10) * 128

\* (df["t [s]"] >= 0) & (df["t [s]"] < 1)
InWindowInclusive(t) == t >= 0 /\ t <= WindowEnd

InWindow(t) == t >= 0 /\ t < WindowEnd

\* the rows of `idx` (labels of rTable) as they are written to the CSV:
\* dropna, convert, copy the time, filter on the window, sort by time
ImportedRows(idx) ==
    LET kept == {i \in idx : Complete(rTable[i]) /\ InWindow(ToSeconds(rTable[i].toa2))}
        T(i) == ToSeconds(rTable[i].toa2)
        Before(i, j) == T(i) < T(j) \/ (T(i) = T(j) /\ i < j)
        Rank(i) == Cardinality({j \in kept : Before(j, i)}) + 1
    IN [k \in 1..Cardinality(kept) |->
            LET i == CHOOSE j \in kept : Rank(j) = k
            IN [x |-> ToPixel(rTable[i].x2), y |-> ToPixel(rTable[i].y2),
                t |-> T(i), trel |-> T(i), src |-> i]]

\* combined_data.groupby('neutron_id'): the groups in key order
NeutronKeys == SortedSeq({rTable[i].nid : i \in DOMAIN rTable})

RowsInit ==
    /\ rTable \in UNION {{s \in [1..n -> TracedRows] : GroupedByNeutron(s)} :
                            n \in 1..MaxRows}
    /\ rOp \in {"whole", "by_neutron"}
    /\ rLeft = IF rOp = "by_neutron" THEN NeutronKeys ELSE <<>>
    /\ rFiles = <<>>
    /\ MergeIdle
    /\ TraceIdle
    /\ PipeIdle
    /\ InitIdle
    /\ LensIdle
    /\ ScanIdle
    /\ OptimizeIdle
    /\ FolderIdle
    /\ ExportIdle
    /\ SaveIdle
    /\ WorkflowIdle
    /\ BuildIdle

\* _process_single_file: imported_<file>.csv is written, also when no row is left
ImportWholeFile ==
    /\ rOp = "whole"
    /\ rFiles = <<>>
    /\ rFiles' = <<ImportedRows(DOMAIN rTable)>>
    /\ UNCHANGED <<rTable, rOp, rLeft>>
    /\ UNCHANGED <<mergeVars, traceVars, pipeVars, initVars, lensVars, scanVars, optVars, folderVars, exportVars, saveVars, flowVars, buildVars>>

\* one neutron of process_data_event_by_event: imported_event_<id>.csv is
\* written unless no row is left (`if df.empty: continue`)
ImportNeutron ==
    /\ rOp = "by_neutron"
    /\ rLeft # <<>>
    /\ LET out == ImportedRows({i \in DOMAIN rTable : rTable[i].nid = Head(rLeft)})
       IN rFiles' = IF out = <<>> THEN rFiles ELSE Append(rFiles, out)
    /\ rLeft' = Tail(rLeft)
    /\ UNCHANGED <<rTable, rOp>>
    /\ UNCHANGED <<mergeVars, traceVars, pipeVars, initVars, lensVars, scanVars, optVars, folderVars, exportVars, saveVars, flowVars, buildVars>>

RowsNext == ImportWholeFile \/ ImportNeutron

SpecRows == RowsInit /\ [][RowsNext]_vars

\* the input rows that may be written: position and time present, 0 <= t < 1 s
Writable(r) ==
    /\ ~IsNaN(r.x2)
    /\ ~IsNaN(r.y2)
    /\ ~IsNaN(r.toa2)
    /\ 0 <= r.toa2
    /\ r.toa2 < 2 * HalfSecondNs

\* C8: every row of an imported-photon CSV, written by the whole-file import or
\* by the per-neutron import, has its pixel x, pixel y and time present, a time
\* with 0 <= t < 1 s and a trigger-relative time equal to it; the rows are in
\* non-decreasing time order; and an input row with a missing position or time
\* or a time outside the window is in no file.
C8_ImportedRowsValid ==
    \A f \in DOMAIN rFiles :
        /\ \A k \in DOMAIN rFiles[f] :
            LET row == rFiles[f][k]
            IN /\ ~IsNaN(row.x) /\ ~IsNaN(row.y) /\ ~IsNaN(row.t)
               /\ 0 <= row.t /\ row.t < WindowEnd
               /\ row.trel = row.t
               /\ Writable(rTable[row.src])
               /\ row.x = (rTable[row.src].x2 + 10) * 128
               /\ row.y = (rTable[row.src].y2 + 10) * 128
               /\ row.t * HalfSecondNs = rTable[row.src].toa2
        /\ \A k \in 1..(Len(rFiles[f]) - 1) : rFiles[f][k].t <= rFiles[f][k + 1].t

\* a file was written that holds two rows at different times, from a table that
\* also held a row at the end of the window
C8_Witness ==
    /\ \E f \in DOMAIN rFiles :
        /\ Len(rFiles[f]) = 2
        /\ rFiles[f][1].t < rFiles[f][2].t
        /\ rFiles[f][1].src > rFiles[f][2].src
    /\ \E i \in DOMAIN rTable : Complete(rTable[i]) /\ rTable[i].toa2 = 2 * HalfSecondNs

(***************************************************************************)
(* Analysis.__init__: data loading, then the EMPIR directory and its files *)
(***************************************************************************)
\* required_files, in the order of the dict: attribute name -> file name
RequiredFiles ==
    <<"empir_import_photons", "empir_bin_photons", "empir_bin_events",
      "process_photon2event.sh", "empir_export_events">>

\* the states of a data folder: missing, without matching files, holding only
\* empty or unreadable files, holding at least one file with rows
FolderStates == {"nodir", "nofiles", "allinvalid", "valid"}

\* analysis.py:264-289 and 292-317: what loading from a folder raises
LoadError(src) ==
    CASE src = "given" -> "none"
      [] src = "nodir" -> "FileNotFoundError"
      [] src = "nofiles" -> "FileNotFoundError"
      [] src = "allinvalid" -> "ValueError"
      [] src = "valid" -> "none"

\* `if not file_path.exists()`
FileMissingSkipLast(f) == f \notin aPresent /\ f # "empir_export_events"

FileMissing(f) == f \notin aPresent

ConstructInit ==
    /\ aData \in {"given"} \cup FolderStates
    /\ aSim \in {"given"} \cup FolderStates
    /\ aEmpirDir \in BOOLEAN
    /\ aPresent \in SUBSET Range(RequiredFiles)
    /\ aEmpirDir = FALSE => aPresent = {}
    /\ aPc = "data"
    /\ aError = "none"
    /\ aLeft = RequiredFiles
    /\ aExecutables = {}
    /\ MergeIdle
    /\ TraceIdle
    /\ PipeIdle
    /\ RowsIdle
    /\ LensIdle
    /\ ScanIdle
    /\ OptimizeIdle
    /\ FolderIdle
    /\ ExportIdle
    /\ SaveIdle
    /\ WorkflowIdle
    /\ BuildIdle

ConstructFrame == UNCHANGED <<aData, aSim, aEmpirDir, aPresent>>

\* analysis.py:264-289
LoadData ==
    /\ aPc = "data"
    /\ aPc' = IF LoadError(aData) = "none" THEN "sim" ELSE "raised"
    /\ aError' = LoadError(aData)
    /\ UNCHANGED <<aLeft, aExecutables>>
    /\ ConstructFrame
    /\ UNCHANGED <<mergeVars, traceVars, pipeVars, rowVars, lensVars, scanVars, optVars, folderVars, exportVars, saveVars, flowVars, buildVars>>

\* analysis.py:292-317
LoadSim ==
    /\ aPc = "sim"
    /\ aPc' = IF LoadError(aSim) = "none" THEN "dir" ELSE "raised"
    /\ aError' = LoadError(aSim)
    /\ UNCHANGED <<aLeft, aExecutables>>
    /\ ConstructFrame
    /\ UNCHANGED <<mergeVars, traceVars, pipeVars, rowVars, lensVars, scanVars, optVars, folderVars, exportVars, saveVars, flowVars, buildVars>>

\* analysis.py:319-320
CheckEmpirDir ==
    /\ aPc = "dir"
    /\ aPc' = IF aEmpirDir THEN "files" ELSE "raised"
    /\ aError' = IF aEmpirDir THEN "none" ELSE "FileNotFoundError"
    /\ UNCHANGED <<aLeft, aExecutables>>
    /\ ConstructFrame
    /\ UNCHANGED <<mergeVars, traceVars, pipeVars, rowVars, lensVars, scanVars, optVars, folderVars, exportVars, saveVars, flowVars, buildVars>>

\* analysis.py:331-336: one iteration of the loop over required_files
CheckRequiredFile ==
    /\ aPc = "files"
    /\ aLeft # <<>>
    /\ IF FileMissing(Head(aLeft))
       THEN /\ aPc' = "raised"
            /\ aError' = "FileNotFoundError"
            /\ UNCHANGED <<aLeft, aExecutables>>
       ELSE /\ aExecutables' = aExecutables \cup {Head(aLeft)}
            /\ aLeft' = Tail(aLeft)
            /\ UNCHANGED <<aPc, aError>>
    /\ ConstructFrame
    /\ UNCHANGED <<mergeVars, traceVars, pipeVars, rowVars, lensVars, scanVars, optVars, folderVars, exportVars, saveVars, flowVars, buildVars>>

\* the loop is over: the constructor returns
Constructed ==
    /\ aPc = "files"
    /\ aLeft = <<>>
    /\ aPc' = "ok"
    /\ UNCHANGED <<aError, aLeft, aExecutables>>
    /\ ConstructFrame
    /\ UNCHANGED <<mergeVars, traceVars, pipeVars, rowVars, lensVars, scanVars, optVars, folderVars, exportVars, saveVars, flowVars, buildVars>>

ConstructNext ==
    LoadData \/ LoadSim \/ CheckEmpirDir \/ CheckRequiredFile \/ Constructed

SpecConstruct == ConstructInit /\ [][ConstructNext]_vars

EmpirComplete == aEmpirDir /\ \A k \in DOMAIN RequiredFiles : RequiredFiles[k] \in aPresent

\* C9 as stated: construction succeeds only if the EMPIR directory and the five
\* required files exist; if the directory or one of them is missing the
\* constructor raises FileNotFoundError; after a successful construction every
\* entry of the executables table is a file that existed.
C9_MissingRaisesFileNotFound ==
    /\ aPc = "ok" =>
        /\ EmpirComplete
        /\ aExecutables = Range(RequiredFiles)
        /\ aExecutables \subseteq aPresent
    /\ (aPc \in {"ok", "raised"} /\ ~EmpirComplete) =>
        (aPc = "raised" /\ aError = "FileNotFoundError")

\* C9 amended: with the directory or a required file missing the constructor
\* raises, and what it raises is FileNotFoundError unless the loading of the
\* traced or the simulation data, which comes first, found only empty or
\* unreadable files and raised ValueError.
C9_MissingRaises ==
    /\ aPc = "ok" =>
        /\ EmpirComplete
        /\ aExecutables = Range(RequiredFiles)
        /\ aExecutables \subseteq aPresent
    /\ (aPc \in {"ok", "raised"} /\ ~EmpirComplete) =>
        /\ aPc = "raised"
        /\ aError \in {"FileNotFoundError", "ValueError"}
        /\ aError = "ValueError" => "allinvalid" \in {aData, aSim}
    /\ aPc = "raised" => aExecutables # Range(RequiredFiles)

\* the data was loaded, four required files were found and entered in the table,
\* and the constructor raised on the fifth
C9_Witness ==
    /\ aPc = "raised"
    /\ aError = "FileNotFoundError"
    /\ aData = "valid"
    /\ Cardinality(aExecutables) = 4
    /\ aPresent = aExecutables

(***************************************************************************)
(* Lens: construction and refocus.  Lengths are in thousandths of a mm.    *)
(***************************************************************************)
MaxRefocus == 2

\* default_focus_gaps of the nikkor_58mm lens: gap 22, 2.68 mm
NikkorGap22 == 2680

LensKinds == {"nikkor_58mm", "microscope", "zmx_file"}

\* thicknesses a lens file or prescription gives a focus gap
BuiltThi == {1000, 3000}

FocusValues == {0, 1}

ZFine == {-1, 0, 1}

ZScan == {0, 5}

\* self.dist_from_obj
DistFromObj(kind) ==
    CASE kind = "nikkor_58mm" -> 461535
      [] kind = "microscope" -> 41000
      [] kind = "zmx_file" -> 100000

\* Lens.refocus on a copy of model m: the returned model
RefocusModel(kind, defaults, focusGaps, m, zscan, zfine) ==
    [obj |-> DistFromObj(kind) + zscan,
     gaps |->
        CASE kind = "nikkor_58mm" ->
                IF zfine # 0 THEN <<defaults[1] + zfine>> ELSE m.gaps
          [] kind = "microscope" ->
                IF zfine # 0
                THEN <<defaults[1] + zfine, defaults[2] - zfine>>
                ELSE m.gaps
          [] kind = "zmx_file" ->
                IF zfine # 0 /\ focusGaps # <<>>
                THEN [k \in DOMAIN m.gaps |-> m.gaps[k] + zfine * focusGaps[k]]
                ELSE m.gaps]

\* the model a loader returns: nikkor_58mm(), microscope_nikor_80_200mm_canon_50mm(focus)
\* (which refocuses the model it built), load_zmx_lens(focus) (which refocuses
\* when focus and focus_gaps are given)
LoadedModel(kind, focusGiven, focus, focusGaps, built) ==
    LET m == [obj |-> DistFromObj(kind), gaps |-> built]
    IN  CASE kind = "nikkor_58mm" -> m
          [] kind = "microscope" -> RefocusModel(kind, built, focusGaps, m, 0, focus)
          [] kind = "zmx_file" ->
                IF focusGiven /\ focusGaps # <<>>
                THEN RefocusModel(kind, built, focusGaps, m, 0, focus)
                ELSE m

LensInit ==
    /\ lKind \in LensKinds
    /\ lFocusGiven \in BOOLEAN
    /\ lFocus \in FocusValues
    /\ ~lFocusGiven => lFocus = 0
    /\ lFocusGaps \in {<<>>, <<1>>, <<2>>}
    /\ lKind # "zmx_file" => lFocusGaps = <<>>
    /\ lBuilt \in {<<NikkorGap22>>} \cup {<<a>> : a \in BuiltThi}
                    \cup {<<a, b>> : a \in BuiltThi, b \in BuiltThi} \cup {<<>>}
    /\ lKind = "nikkor_58mm" => lBuilt = <<NikkorGap22>>
    /\ lKind = "microscope" => Len(lBuilt) = 2
    /\ lKind = "zmx_file" =>
            Len(lBuilt) = Len(lFocusGaps) /\ lBuilt # <<NikkorGap22>>
    /\ lDefault = <<>>
    /\ lOpm0 = NoModel
    /\ lOpm = NoModel
    /\ lPc = "new"
    /\ lCalls = 0
    /\ lLast = NoCall
    /\ MergeIdle
    /\ TraceIdle
    /\ PipeIdle
    /\ RowsIdle
    /\ InitIdle
    /\ ScanIdle
    /\ OptimizeIdle
    /\ FolderIdle
    /\ ExportIdle
    /\ SaveIdle
    /\ WorkflowIdle
    /\ BuildIdle

\* Lens.__init__ (optics.py:57-82 and 119-137) with the loader it calls
ConstructLens ==
    /\ lPc = "new"
    /\ lDefault' = IF lKind = "zmx_file" THEN lFocusGaps ELSE lBuilt
    /\ lOpm0' = LoadedModel(lKind, lFocusGiven, lFocus, lFocusGaps, lBuilt)
    /\ lOpm' = IF lFocusGiven
               THEN RefocusModel(lKind, lDefault', lFocusGaps, lOpm0', 0, lFocus)
               ELSE lOpm0'
    /\ lPc' = "ready"
    /\ UNCHANGED <<lKind, lFocusGiven, lFocus, lFocusGaps, lBuilt, lCalls, lLast>>
    /\ UNCHANGED <<mergeVars, traceVars, pipeVars, rowVars, initVars, scanVars, optVars, folderVars, exportVars, saveVars, flowVars, buildVars>>

\* Lens.refocus(opm, zscan, zfine): opm is None (self.opm0 is copied) or the
\* current model, which an earlier refocus returned
Refocus ==
    /\ lPc = "ready"
    /\ lCalls < MaxRefocus
    /\ \E given \in BOOLEAN, zscan \in ZScan, zfine \in ZFine :
        LET m == IF given THEN lOpm ELSE lOpm0
            res == RefocusModel(lKind, lDefault, lFocusGaps, m, zscan, zfine)
        IN  /\ lOpm' = res
            /\ lLast' = [called |-> TRUE, zscan |-> zscan, zfine |-> zfine,
                         given |-> given, result |-> res]
    /\ lCalls' = lCalls + 1
    /\ UNCHANGED <<lKind, lFocusGiven, lFocus, lFocusGaps, lBuilt, lDefault, lOpm0, lPc>>
    /\ UNCHANGED <<mergeVars, traceVars, pipeVars, rowVars, initVars, scanVars, optVars, folderVars, exportVars, saveVars, flowVars, buildVars>>

LensNext == ConstructLens \/ Refocus

SpecRefocus == LensInit /\ [][LensNext]_vars

\* the gaps refocus is documented to give: the default thickness plus zfine
\* (gap 31 of the microscope: minus zfine; a zmx_file gap: plus zfine times its
\* scaling factor)
GapsFromDefault(zfine) ==
    CASE lKind = "nikkor_58mm" -> <<lBuilt[1] + zfine>>
      [] lKind = "microscope" -> <<lBuilt[1] + zfine, lBuilt[2] - zfine>>
      [] lKind = "zmx_file" ->
            [k \in DOMAIN lBuilt |-> lBuilt[k] + zfine * lFocusGaps[k]]

\* C10: after refocus with fine focus z, on whatever model it was given, the
\* focus gaps are the default thicknesses plus z (times the scaling factor for
\* a zmx_file lens); so z = 0 restores the defaults and a second refocus with
\* the same z changes nothing.
C10_RefocusRelativeToDefaults ==
    lLast.called => lLast.result.gaps = GapsFromDefault(lLast.zfine)

\* C11: for the microscope lens, refocus with fine focus z leaves gap 24 at its
\* stored default plus z and gap 31 at its stored default minus z, so the two
\* gaps sum to the sum of the two defaults; and the object distance is the
\* configured object distance plus zscan.
C11_MicroscopeGapsAndDistance ==
    (lLast.called /\ lKind = "microscope") =>
        /\ lLast.result.gaps[1] = lDefault[1] + lLast.zfine
        /\ lLast.result.gaps[2] = lDefault[2] - lLast.zfine
        /\ lLast.result.gaps[1] + lLast.result.gaps[2] = lDefault[1] + lDefault[2]
        /\ lLast.result.obj = DistFromObj(lKind) + lLast.zscan

(***************************************************************************)
(* Lens.zscan: data selection, then one refocus and trace per scan value   *)
(***************************************************************************)
MaxScan == 2

ScanValues == {0, 1}

\* where rays can come from: the data argument, the SimPhotons files of the
\* archive argument, self.data, the SimPhotons files of self.archive (which
\* trace_rays reads)
RaySources == {"data", "archive", "self.data", "self.archive"}

\* ray tags of a source; tag 0 is a ray the lens cannot trace
RayLists == {<<>>, <<0>>, <<1, 3>>}

\* zfocus_range / zfine_range: a scalar, or a list of up to MaxScan values
ScalarRanges == {[iter |-> FALSE, vals |-> <<v>>] : v \in ScanValues}

IterRanges ==
    {[iter |-> TRUE, vals |-> s] :
        s \in UNION {[1..n -> ScanValues] : n \in 0..MaxScan}}

\* the parameters of Lens.refocus (optics.py:443)
RefocusParameters == {"opm", "zscan", "zfine", "fnumber", "save"}

\* the keywords zscan passes to refocus besides the positional opm
ZscanRefocusKeywords == {"zfocus", "zfine"}

\* a call with a keyword the function does not have raises TypeError
RefocusAccepts(keywords) == keywords \subseteq RefocusParameters

\* optics.py:862-895: the data the call works on, or the error it raises
SelectData(dataArg, archiveArg) ==
    CASE archiveArg = "nodir" -> "ValueError"
      [] archiveArg = "novalid" -> "ValueError"
      [] archiveArg = "valid" -> "archive"
      [] archiveArg = "none" /\ dataArg -> "data"
      [] archiveArg = "none" /\ ~dataArg -> "self.data"

\* the sensor position of a ray through the lens refocused at value v
TracedX2(tag, v) == IF tag = 0 THEN NaN ELSE tag * (v + 1)

TracedY2(tag, v) == IF tag = 0 THEN NaN ELSE tag

\* n * (n - 1) times the sample variance (ddof = 1) of the values of s
ScaledVar(s) ==
    Len(s) * SumOver(DOMAIN s, [i \in DOMAIN s |-> s[i] * s[i]])
        - SumOver(DOMAIN s, s) * SumOver(DOMAIN s, s)

Inf == [kind |-> "inf", n |-> 0, vx |-> 0, vy |-> 0]

\* np.sqrt(valid_x2.std()**2 + valid_y2.std()**2) over the valid positions:
\* NaN for a single position
CombinedStd(rays, v) ==
    LET valid == SelectSeq(rays, LAMBDA tag : ~IsNaN(TracedX2(tag, v)))
        xs == [i \in DOMAIN valid |-> TracedX2(valid[i], v)]
        ys == [i \in DOMAIN valid |-> TracedY2(valid[i], v)]
    IN  IF Len(valid) = 0 THEN Inf
        ELSE IF Len(valid) = 1 THEN [kind |-> "nan", n |-> 1, vx |-> 0, vy |-> 0]
        ELSE [kind |-> "std", n |-> Len(valid), vx |-> ScaledVar(xs), vy |-> ScaledVar(ys)]

\* optics.py:927-987: the entry of one scan value
ScanEntry(v) ==
    IF ~RefocusAccepts(ZscanRefocusKeywords) THEN Inf
    ELSE IF zRays["self.archive"] = <<>> THEN Inf
    ELSE CombinedStd(zRays["self.archive"], v)

ZscanInit ==
    /\ zDataArg \in BOOLEAN
    /\ zArchiveArg \in {"none", "nodir", "novalid", "valid"}
    /\ zRays \in [RaySources -> RayLists]
    /\ ~zDataArg => zRays["data"] = <<>>
    /\ (zArchiveArg = "valid") = (zRays["archive"] # <<>>)
    /\ zFocusRange \in ScalarRanges \cup IterRanges
    /\ zFineRange \in ScalarRanges \cup IterRanges
    /\ zPc = "load"
    /\ zError = "none"
    /\ zData = "none"
    /\ zLeft = <<>>
    /\ zResults = <<>>
    /\ zTraced = {}
    /\ MergeIdle
    /\ TraceIdle
    /\ PipeIdle
    /\ RowsIdle
    /\ InitIdle
    /\ LensIdle
    /\ OptimizeIdle
    /\ FolderIdle
    /\ ExportIdle
    /\ SaveIdle
    /\ WorkflowIdle
    /\ BuildIdle

ZscanFrame == UNCHANGED <<zDataArg, zArchiveArg, zRays, zFocusRange, zFineRange>>

\* optics.py:862-913: select the data, take the scan range
ZscanLoad ==
    /\ zPc = "load"
    /\ LET sel == SelectData(zDataArg, zArchiveArg)
       IN  IF sel = "ValueError" \/ (zFocusRange.iter /\ zFineRange.iter)
           THEN /\ zPc' = "raised"
                /\ zError' = "ValueError"
                /\ zData' = IF sel = "ValueError" THEN "none" ELSE sel
                /\ UNCHANGED zLeft
           ELSE /\ zPc' = "scan"
                /\ zData' = sel
                /\ zLeft' = IF ~zFocusRange.iter THEN zFineRange.vals
                            ELSE zFocusRange.vals
                /\ UNCHANGED zError
    /\ UNCHANGED <<zResults, zTraced>>
    /\ ZscanFrame
    /\ UNCHANGED <<mergeVars, traceVars, pipeVars, rowVars, initVars, lensVars, optVars, folderVars, exportVars, saveVars, flowVars, buildVars>>

\* optics.py:922-987: one iteration of the loop over scan_range
ZscanStep ==
    /\ zPc = "scan"
    /\ zLeft # <<>>
    /\ LET v == Head(zLeft)
       IN  /\ zResults' = [w \in DOMAIN zResults \cup {v} |->
                                IF w = v THEN ScanEntry(v) ELSE zResults[w]]
           /\ zTraced' = IF RefocusAccepts(ZscanRefocusKeywords)
                         THEN zTraced \cup {"self.archive"}
                         ELSE zTraced
    /\ zLeft' = Tail(zLeft)
    /\ UNCHANGED <<zPc, zError, zData>>
    /\ ZscanFrame
    /\ UNCHANGED <<mergeVars, traceVars, pipeVars, rowVars, initVars, lensVars, optVars, folderVars, exportVars, saveVars, flowVars, buildVars>>

\* optics.py:989-1003: return pd.Series(results)
ZscanReturn ==
    /\ zPc = "scan"
    /\ zLeft = <<>>
    /\ zPc' = "done"
    /\ UNCHANGED <<zError, zData, zLeft, zResults, zTraced>>
    /\ ZscanFrame
    /\ UNCHANGED <<mergeVars, traceVars, pipeVars, rowVars, initVars, lensVars, optVars, folderVars, exportVars, saveVars, flowVars, buildVars>>

ZscanNext == ZscanLoad \/ ZscanStep \/ ZscanReturn

SpecZscan == ZscanInit /\ [][ZscanNext]_vars

\* the values the call scans
ScannedValues ==
    IF ~zFocusRange.iter THEN Range(zFineRange.vals) ELSE Range(zFocusRange.vals)

\* the refocused lens traces at least one ray of the selected data to a valid
\* sensor position
TracesValid(v) == \E i \in DOMAIN zRays[zData] : ~IsNaN(TracedX2(zRays[zData][i], v))

\* C12: zscan returns one entry per scanned value; where the refocused lens
\* traces at least one ray to a valid position the entry is the combined
\* standard deviation of the traced positions, a finite value; an entry is
\* infinite only where nothing was traced to a valid position; two iterable
\* ranges raise ValueError.
C12_EntryIsStdWhereTraced ==
    /\ zPc = "done" =>
        /\ DOMAIN zResults = ScannedValues
        /\ \A v \in ScannedValues :
            /\ TracesValid(v) =>
                    /\ zResults[v] = CombinedStd(zRays[zData], v)
                    /\ zResults[v].kind = "std"
            /\ zResults[v] = Inf => ~TracesValid(v)
    /\ (zPc # "load" /\ zFocusRange.iter /\ zFineRange.iter) =>
            (zPc = "raised" /\ zError = "ValueError")

\* the source the documented precedence selects: the data argument if given,
\* otherwise the archive argument, otherwise the lens's own data
DocumentedSource ==
    IF zDataArg THEN "data"
    ELSE IF zArchiveArg # "none" THEN "archive"
    ELSE "self.data"

\* C13: the rays zscan works on are those of the data the call selects, a
\* DataFrame passed as data overriding the archive argument and the class data,
\* and no rays of another source are traced.
C13_TracesSelectedData ==
    /\ zPc \in {"scan", "done"} => zData = DocumentedSource
    /\ (zDataArg /\ zPc = "raised") => (zFocusRange.iter /\ zFineRange.iter)
    /\ zTraced \subseteq {DocumentedSource}

(***************************************************************************)
(* Lens.zscan_optimize: data selection, then one minimizer run per stage   *)
(***************************************************************************)
MaxPhotons == 2

\* valid_params
ValidParams ==
    {"zfocus", "zfine", "fnumber", "both", "zfocus+fnumber", "zfine+fnumber", "all"}

\* the values of optimize_param tried: the valid ones and two others
ParamInputs == ValidParams \cup {"focus", "zfocus+zfine"}

\* optimize_zfocus, optimize_zfine, optimize_fnumber
Selected(param, p) ==
    CASE p = "zfocus" -> param \in {"zfocus", "both", "zfocus+fnumber", "all"}
      [] p = "zfine" -> param \in {"zfine", "both", "zfine+fnumber", "all"}
      [] p = "fnumber" -> param \in {"fnumber", "zfocus+fnumber", "zfine+fnumber", "all"}

Stages == <<"zfocus", "zfine", "fnumber">>

\* initial_zfocus, initial_zfine, initial_fnumber
InitialValues == {0, 3}

\* the values a minimizer run can end at
FoundValues == {1, 2}

\* lmfit's minimize returns, raises MinimizerException, or raises another
\* exception, which zscan_optimize does not catch
MinimizerOutcomes == {"ok", "MinimizerException", "raises"}

\* refocus_kwargs: the keys of fixed_params and param_name, in every stage
OptimizeRefocusKeywords == {"zfocus", "zfine", "fnumber"}

ZeroFraction == [num |-> 0, den |-> 1]

\* best_result after the minimizer ran the objective: it changes only if the
\* refocus call is accepted and trace_rays, which reads the files of
\* self.archive, gives at least two valid positions
BestResult ==
    IF RefocusAccepts(OptimizeRefocusKeywords) /\ oLensValid >= 2
    THEN [std |-> "std", frac |-> [num |-> oLensValid, den |-> oTotal]]
    ELSE [std |-> "inf", frac |-> ZeroFraction]

NextCurrentKeep(ok, z, cur) == cur

\* current_<parameter> after a stage: `current_zfocus = best_zfocus` on success
NextCurrent(ok, z, cur) == IF ok THEN z ELSE cur

NoSummary == [of |-> "none", min_std |-> "inf", frac |-> ZeroFraction, result |-> "none"]

OptimizeInit ==
    /\ oParam \in ParamInputs
    /\ oDataArg \in BOOLEAN
    /\ oArchiveArg \in {"none", "nodir", "novalid", "valid"}
    /\ oTotal \in 0..MaxPhotons
    /\ oSelValid \in 0..oTotal
    /\ oLensValid \in 0..MaxPhotons
    /\ oInitial \in [Range(Stages) -> InitialValues]
    /\ oCurrent = oInitial
    /\ oPc = "load"
    /\ oError = "none"
    /\ oBest = <<>>
    /\ oSummary = NoSummary
    /\ oRan = <<>>
    /\ MergeIdle
    /\ TraceIdle
    /\ PipeIdle
    /\ RowsIdle
    /\ InitIdle
    /\ LensIdle
    /\ ScanIdle
    /\ FolderIdle
    /\ ExportIdle
    /\ SaveIdle
    /\ WorkflowIdle
    /\ BuildIdle

OptimizeFrame ==
    UNCHANGED <<oParam, oDataArg, oArchiveArg, oTotal, oSelValid, oLensValid, oInitial>>

\* optics.py:1079-1149: select and clean the data, validate optimize_param
OptimizeLoad ==
    /\ oPc = "load"
    /\ IF \/ SelectData(oDataArg, oArchiveArg) = "ValueError"
          \/ oTotal = 0
          \/ oParam \notin ValidParams
       THEN oPc' = "raised" /\ oError' = "ValueError"
       ELSE oPc' = "zfocus" /\ UNCHANGED oError
    /\ UNCHANGED <<oCurrent, oBest, oSummary, oRan>>
    /\ OptimizeFrame
    /\ UNCHANGED <<mergeVars, traceVars, pipeVars, rowVars, initVars, lensVars, scanVars, folderVars, exportVars, saveVars, flowVars, buildVars>>

\* one of the three `if optimize_<parameter>:` blocks
Stage(p, next) ==
    /\ IF ~Selected(oParam, p)
       THEN /\ oPc' = next
            /\ UNCHANGED <<oError, oCurrent, oBest, oSummary, oRan>>
       ELSE \E outcome \in MinimizerOutcomes, z \in FoundValues :
            /\ oRan' = Append(oRan, [stage |-> p, fixed |-> oCurrent, outcome |-> outcome])
            /\ CASE outcome = "ok" ->
                    /\ oBest' = [q \in DOMAIN oBest \cup {p} |->
                                    IF q = p THEN z ELSE oBest[q]]
                    /\ oSummary' = [of |-> p, min_std |-> BestResult.std,
                                    frac |-> BestResult.frac, result |-> "MinimizeResult"]
                    /\ oCurrent' = [oCurrent EXCEPT ![p] = NextCurrent(TRUE, z, @)]
                    /\ oPc' = next
                    /\ UNCHANGED oError
                 [] outcome = "MinimizerException" ->
                    /\ oBest' = [q \in DOMAIN oBest \cup {p} |->
                                    IF q = p THEN oCurrent[p] ELSE oBest[q]]
                    /\ oSummary' = [of |-> p, min_std |-> "inf",
                                    frac |-> ZeroFraction, result |-> "None"]
                    /\ oCurrent' = [oCurrent EXCEPT ![p] = NextCurrent(FALSE, z, @)]
                    /\ oPc' = next
                    /\ UNCHANGED oError
                 [] outcome = "raises" ->
                    /\ oPc' = "raised"
                    /\ oError' = "other"
                    /\ UNCHANGED <<oCurrent, oBest, oSummary>>
    /\ OptimizeFrame
    /\ UNCHANGED <<mergeVars, traceVars, pipeVars, rowVars, initVars, lensVars, scanVars, folderVars, exportVars, saveVars, flowVars, buildVars>>

\* optics.py:1233-1265
OptimizeZfocus ==
    /\ oPc = "zfocus"
    /\ Stage("zfocus", "zfine")

\* optics.py:1268-1300
OptimizeZfine ==
    /\ oPc = "zfine"
    /\ Stage("zfine", "fnumber")

\* optics.py:1303-1333
OptimizeFnumber ==
    /\ oPc = "fnumber"
    /\ Stage("fnumber", "return")

\* optics.py:1335: return results
OptimizeReturn ==
    /\ oPc = "return"
    /\ oPc' = "done"
    /\ UNCHANGED <<oError, oCurrent, oBest, oSummary, oRan>>
    /\ OptimizeFrame
    /\ UNCHANGED <<mergeVars, traceVars, pipeVars, rowVars, initVars, lensVars, scanVars, folderVars, exportVars, saveVars, flowVars, buildVars>>

OptimizeNext ==
    OptimizeLoad \/ OptimizeZfocus \/ OptimizeZfine \/ OptimizeFnumber \/ OptimizeReturn

SpecOptimize == OptimizeInit /\ [][OptimizeNext]_vars

\* C14: the traced_fraction of the returned dict lies between 0 and 1 and is
\* the number of photons the lens traces to a valid position at the optimum
\* divided by the number of photons submitted to tracing.
C14_FractionOfTracedPhotons ==
    (oPc = "done" /\ oSummary.result = "MinimizeResult") =>
        /\ 0 <= oSummary.frac.num
        /\ oSummary.frac.num <= oSummary.frac.den
        /\ oSummary.frac.num * oTotal = oSelValid * oSummary.frac.den

\* the selected parameters, in the order of the stages
SelectedStages == SelectSeq(Stages, LAMBDA p : Selected(oParam, p))

\* C15: the selected parameters are optimized one at a time in the order
\* zfocus, zfine, fnumber, each stage holding fixed the values the earlier
\* stages found; the returned dict has a best_<parameter> entry for exactly the
\* selected parameters (the starting value where the minimizer failed), and
\* min_std, traced_fraction and result are those of the last stage that ran;
\* an optimize_param outside the list raises ValueError.
C15_StagesInFixedOrder ==
    /\ Len(oRan) <= Len(SelectedStages)
    /\ \A k \in DOMAIN oRan :
        /\ oRan[k].stage = SelectedStages[k]
        /\ \A q \in Range(Stages) :
            oRan[k].fixed[q] =
                IF \E j \in 1..(k - 1) : oRan[j].stage = q
                THEN oBest[q]
                ELSE oInitial[q]
        /\ oRan[k].outcome = "MinimizerException" =>
                oBest[oRan[k].stage] = oRan[k].fixed[oRan[k].stage]
    /\ oPc = "done" =>
        /\ Len(oRan) = Len(SelectedStages)
        /\ DOMAIN oBest = Range(SelectedStages)
        /\ oSummary.of = oRan[Len(oRan)].stage
        /\ IF oRan[Len(oRan)].outcome = "ok"
           THEN oSummary.result = "MinimizeResult" /\ oSummary.min_std = BestResult.std
           ELSE /\ oSummary.result = "None"
                /\ oSummary.min_std = "inf"
                /\ oSummary.frac = ZeroFraction
    /\ (oPc # "load" /\ oParam \notin ValidParams) =>
        (oPc = "raised" /\ oError = "ValueError" /\ oRan = <<>>)

\* all three stages ran, the second one's minimizer failed, and the dict was
\* returned
C15_Witness ==
    /\ oPc = "done"
    /\ oParam = "all"
    /\ Len(oRan) = 3
    /\ oRan[1].outcome = "ok"
    /\ oRan[2].outcome = "MinimizerException"
    /\ oRan[3].outcome = "ok"
    /\ oBest["zfocus"] # oInitial["zfocus"]
    /\ oRan[3].fixed["zfocus"] = oBest["zfocus"]

(***************************************************************************)
(* The results folder of process_data and process_data_event_by_event      *)
(***************************************************************************)
MaxSuffixLen == 3

MaxCalls == 2

\* the characters suffixes are made of
SuffixChars == {"_", "a", "b"}

Suffixes == UNION {[1..n -> SuffixChars] : n \in 0..MaxSuffixLen}

\* str.strip("_"): leading and trailing underscores removed
RECURSIVE LStrip(_)
LStrip(s) == IF s # <<>> /\ Head(s) = "_" THEN LStrip(Tail(s)) ELSE s

RECURSIVE RStrip(_)
RStrip(s) ==
    IF s # <<>> /\ s[Len(s)] = "_" THEN RStrip(SubSeq(s, 1, Len(s) - 1)) ELSE s

Strip(s) == RStrip(LStrip(s))

DefaultName == <<"d", "e", "f", "a", "u", "l", "t">>

\* self.archive / "AnalysedResults", as path components below the archive
AnalysedDir == <<"AnalysedResults">>

\* Path / name: joining an empty name gives the path itself
JoinPath(dir, name) == IF name = <<>> THEN dir ELSE Append(dir, name)

\* suffix_dir = analysed_dir / (suffix.strip("_") if suffix else "default")
SuffixDir(suffix) ==
    JoinPath(AnalysedDir, IF suffix # <<>> THEN Strip(suffix) ELSE DefaultName)

\* the files each entry point writes into suffix_dir
ResultFiles(entry) ==
    IF entry = "process_data"
    THEN {"parameterSettings.json", "parameterEvents.json", "counts.csv"}
    ELSE {"parameterSettings.json", "parameterEvents.json", "all_batches_results.csv"}

FolderInit ==
    /\ fCalls = <<>>
    /\ fWritten = {}
    /\ MergeIdle
    /\ TraceIdle
    /\ PipeIdle
    /\ RowsIdle
    /\ InitIdle
    /\ LensIdle
    /\ ScanIdle
    /\ OptimizeIdle
    /\ ExportIdle
    /\ SaveIdle
    /\ WorkflowIdle
    /\ BuildIdle

WriteResults(entry) ==
    /\ \E suffix \in Suffixes :
        /\ fCalls' = Append(fCalls, [entry |-> entry, suffix |-> suffix,
                                     dir |-> SuffixDir(suffix)])
        /\ fWritten' = fWritten \cup
                {[dir |-> SuffixDir(suffix), file |-> f] : f \in ResultFiles(entry)}
    /\ UNCHANGED <<mergeVars, traceVars, pipeVars, rowVars, initVars, lensVars, scanVars, optVars, exportVars, saveVars, flowVars, buildVars>>

\* analysis.py:533-580
ProcessData ==
    /\ Len(fCalls) < MaxCalls
    /\ WriteResults("process_data")

\* analysis.py:691-696, 767-776, 891-893
ProcessDataEventByEvent ==
    /\ Len(fCalls) < MaxCalls
    /\ WriteResults("process_data_event_by_event")

FolderNext == ProcessData \/ ProcessDataEventByEvent

SpecFolder == FolderInit /\ [][FolderNext]_vars

\* dir is a folder strictly below AnalysedResults
ProperSubfolder(dir) ==
    /\ Len(dir) > Len(AnalysedDir)
    /\ SubSeq(dir, 1, Len(AnalysedDir)) = AnalysedDir

\* C16: the results folder is AnalysedResults/default for the empty suffix and
\* AnalysedResults/<name> for a suffix "_<name>"; for every suffix it is a
\* proper subfolder of AnalysedResults, and calls with different suffixes write
\* to different folders.
C16_SuffixFolder ==
    /\ \A k \in DOMAIN fCalls :
        /\ fCalls[k].suffix = <<>> => fCalls[k].dir = Append(AnalysedDir, DefaultName)
        /\ (Len(fCalls[k].suffix) > 1 /\ Head(fCalls[k].suffix) = "_"
                /\ "_" \notin Range(Tail(fCalls[k].suffix))) =>
                    fCalls[k].dir = Append(AnalysedDir, Tail(fCalls[k].suffix))
        /\ ProperSubfolder(fCalls[k].dir)
    /\ \A j, k \in DOMAIN fCalls :
        fCalls[j].suffix # fCalls[k].suffix => fCalls[j].dir # fCalls[k].dir

(***************************************************************************)
(* Analysis.export_events                                                  *)
(***************************************************************************)
MaxEvents == 2

\* the file_number of an event: missing, or a number
FileNumbers == {NaN, 1, 2}

EventTables == UNION {[1..n -> FileNumbers] : n \in 0..MaxEvents}

\* DataFrame.groupby('file_number'): the keys in ascending order; rows whose
\* key is missing belong to no group
GroupKeys(table) == SortedSeq({table[i] : i \in DOMAIN table} \ {NaN})

GroupRows(table, key) == {i \in DOMAIN table : table[i] = key}

\* the files left to write: one per group (<<n>> names exported_event_data_n.csv),
\* or the single file exported_event_data.csv (<<>>)
FilesToWrite(hasColumn, table) ==
    IF hasColumn
    THEN [k \in DOMAIN GroupKeys(table) |-> <<GroupKeys(table)[k]>>]
    ELSE << <<>> >>

ExportInit ==
    /\ eSupplied \in {"none", "empty", "frame"}
    /\ eDefault \in {"missing", "unreadable", "readable"}
    /\ eHasColumn \in BOOLEAN
    /\ eTable \in EventTables
    /\ (eSupplied = "frame") = (eTable # <<>>)
    /\ eStored \in EventTables
    /\ (eDefault # "readable" \/ eSupplied = "frame") => eStored = <<>>
    /\ ~eHasColumn => (Range(eTable) \cup Range(eStored)) \subseteq {1}
    /\ eFailAt \in 0..MaxEvents
    /\ ePc = "load"
    /\ eEvents = <<>>
    /\ eLeft = <<>>
    /\ eFiles = <<>>
    /\ eWrites = 0
    /\ eReturn = "none"
    /\ MergeIdle
    /\ TraceIdle
    /\ PipeIdle
    /\ RowsIdle
    /\ InitIdle
    /\ LensIdle
    /\ ScanIdle
    /\ OptimizeIdle
    /\ FolderIdle
    /\ SaveIdle
    /\ WorkflowIdle
    /\ BuildIdle

ExportFrame == UNCHANGED <<eSupplied, eDefault, eHasColumn, eTable, eStored, eFailAt>>

\* analysis.py:1121-1134: take the table given, or load the saved one
ExportLoad ==
    /\ ePc = "load"
    /\ IF eSupplied \in {"none", "empty"} /\ eDefault \in {"missing", "unreadable"}
       THEN /\ ePc' = "done"
            /\ eReturn' = "False"
            /\ UNCHANGED <<eEvents, eLeft>>
       ELSE /\ ePc' = "write"
            /\ eEvents' = IF eSupplied = "frame" THEN eTable ELSE eStored
            /\ eLeft' = FilesToWrite(eHasColumn, eEvents')
            /\ UNCHANGED eReturn
    /\ UNCHANGED <<eFiles, eWrites>>
    /\ ExportFrame
    /\ UNCHANGED <<mergeVars, traceVars, pipeVars, rowVars, initVars, lensVars, scanVars, optVars, folderVars, saveVars, flowVars, buildVars>>

\* analysis.py:1139-1173: one to_csv; an exception ends the export with False
ExportWrite ==
    /\ ePc = "write"
    /\ eLeft # <<>>
    /\ eWrites' = eWrites + 1
    /\ IF eWrites' = eFailAt
       THEN /\ ePc' = "done"
            /\ eReturn' = "False"
            /\ UNCHANGED <<eLeft, eFiles>>
       ELSE /\ LET name == Head(eLeft)
                   rows == IF name = <<>> THEN DOMAIN eEvents
                           ELSE GroupRows(eEvents, name[1])
               IN  eFiles' = [n \in DOMAIN eFiles \cup {name} |->
                                IF n = name THEN rows ELSE eFiles[n]]
            /\ eLeft' = Tail(eLeft)
            /\ UNCHANGED <<ePc, eReturn>>
    /\ UNCHANGED eEvents
    /\ ExportFrame
    /\ UNCHANGED <<mergeVars, traceVars, pipeVars, rowVars, initVars, lensVars, scanVars, optVars, folderVars, saveVars, flowVars, buildVars>>

\* analysis.py:1178-1181: return True
ExportReturn ==
    /\ ePc = "write"
    /\ eLeft = <<>>
    /\ ePc' = "done"
    /\ eReturn' = "True"
    /\ UNCHANGED <<eEvents, eLeft, eFiles, eWrites>>
    /\ ExportFrame
    /\ UNCHANGED <<mergeVars, traceVars, pipeVars, rowVars, initVars, lensVars, scanVars, optVars, folderVars, saveVars, flowVars, buildVars>>

ExportNext == ExportLoad \/ ExportWrite \/ ExportReturn

SpecExport == ExportInit /\ [][ExportNext]_vars

\* C17: a successful export of a table with a file_number column writes one
\* file per distinct file number and every event is in exactly one file; without
\* the column all events are in a single file; the result is False exactly when
\* no events were supplied and none could be loaded, or a write failed.
C17_EveryEventExportedOnce ==
    ePc = "done" =>
        /\ (eReturn = "True" /\ eHasColumn) =>
            /\ DOMAIN eFiles = {<<n>> : n \in Range(eEvents) \ {NaN}}
            /\ \A i \in DOMAIN eEvents :
                Cardinality({n \in DOMAIN eFiles : i \in eFiles[n]}) = 1
        /\ (eReturn = "True" /\ ~eHasColumn) =>
            /\ DOMAIN eFiles = {<<>>}
            /\ eFiles[<<>>] = DOMAIN eEvents
        /\ (eReturn = "False") =
            \/ eSupplied \in {"none", "empty"} /\ eDefault \in {"missing", "unreadable"}
            \/ eWrites = eFailAt /\ eWrites > 0

(***************************************************************************)
(* Analysis.save_reconstructed_events                                      *)
(***************************************************************************)
\* VerbosityLevel: QUIET, BASIC, DETAILED
Verbosities == {0, 1, 2}

\* the columns the report after the save reads
ReportColumns == {"major_axis_px", "track_length_3d"}

SaveInit ==
    /\ sTable \in {"none", "empty", "frame"}
    /\ sVerbosity \in Verbosities
    /\ sColumns \in SUBSET ReportColumns
    /\ sTable # "frame" => sColumns = {}
    /\ sWriteOk \in BOOLEAN
    /\ sPc = "check"
    /\ sWritten = FALSE
    /\ sReturn = "none"
    /\ MergeIdle
    /\ TraceIdle
    /\ PipeIdle
    /\ RowsIdle
    /\ InitIdle
    /\ LensIdle
    /\ ScanIdle
    /\ OptimizeIdle
    /\ FolderIdle
    /\ ExportIdle
    /\ WorkflowIdle
    /\ BuildIdle

SaveFrame == UNCHANGED <<sTable, sVerbosity, sColumns, sWriteOk>>

\* analysis.py:1207-1210
SaveCheck ==
    /\ sPc = "check"
    /\ IF sTable \in {"none", "empty"}
       THEN sPc' = "done" /\ sReturn' = "False"
       ELSE sPc' = "write" /\ UNCHANGED sReturn
    /\ UNCHANGED sWritten
    /\ SaveFrame
    /\ UNCHANGED <<mergeVars, traceVars, pipeVars, rowVars, initVars, lensVars, scanVars, optVars, folderVars, exportVars, flowVars, buildVars>>

\* analysis.py:1212-1227: mkdir and to_csv; an exception gives False
SaveWrite ==
    /\ sPc = "write"
    /\ IF sWriteOk
       THEN sPc' = "report" /\ sWritten' = TRUE /\ UNCHANGED sReturn
       ELSE sPc' = "done" /\ sReturn' = "False" /\ UNCHANGED sWritten
    /\ SaveFrame
    /\ UNCHANGED <<mergeVars, traceVars, pipeVars, rowVars, initVars, lensVars, scanVars, optVars, folderVars, exportVars, flowVars, buildVars>>

\* analysis.py:1229-1235: the report reads both columns without a test; a
\* missing column raises KeyError
ReportRaises(verbosity, columns) == verbosity >= 1 /\ ~(ReportColumns \subseteq columns)

\* analysis.py:1229-1242: the report, then return True; an exception gives False
SaveReport ==
    /\ sPc = "report"
    /\ sPc' = "done"
    /\ sReturn' = IF ReportRaises(sVerbosity, sColumns) THEN "False" ELSE "True"
    /\ UNCHANGED sWritten
    /\ SaveFrame
    /\ UNCHANGED <<mergeVars, traceVars, pipeVars, rowVars, initVars, lensVars, scanVars, optVars, folderVars, exportVars, flowVars, buildVars>>

SaveNext == SaveCheck \/ SaveWrite \/ SaveReport

SpecSave == SaveInit /\ [][SaveNext]_vars

\* C18: at every verbosity level save_reconstructed_events returns True exactly
\* when events_with_shape_parameters.csv was written, and returns False, with
\* nothing written, for a table that is None or empty.
C18_TrueIffWritten ==
    sPc = "done" =>
        /\ (sReturn = "True") = sWritten
        /\ sTable \in {"none", "empty"} => (sReturn = "False" /\ ~sWritten)

(***************************************************************************)
(* Analysis.process_and_export_events                                      *)
(***************************************************************************)
\* the names bound in process_and_export_events: its parameters and the
\* variables it assigns
WorkflowNames ==
    {"self", "archive", "results_df", "verbosity", "enhanced_results",
     "saved", "exported", "cleaned"}

\* the names the call of cleanup_temporary_folders reads for its arguments
CleanupArgumentNames == {"temp_folders", "verbosity"}

\* reading a name that is not bound raises NameError
NameError(names) == ~(names \subseteq WorkflowNames)

\* the table the shape step returns: its number of events
ShapeResults == 0..MaxEvents

WorkflowInit ==
    /\ wVerbosity \in Verbosities
    /\ wEnhanced \in ShapeResults
    /\ wSaveOk \in BOOLEAN
    /\ wExportOk \in BOOLEAN
    /\ wCleanupOk \in {"True", "False", "raises"}
    /\ wPc = "shape"
    /\ wSteps = <<>>
    /\ wReturn = "none"
    /\ MergeIdle
    /\ TraceIdle
    /\ PipeIdle
    /\ RowsIdle
    /\ InitIdle
    /\ LensIdle
    /\ ScanIdle
    /\ OptimizeIdle
    /\ FolderIdle
    /\ ExportIdle
    /\ SaveIdle
    /\ BuildIdle

WorkflowFrame == UNCHANGED <<wVerbosity, wEnhanced, wSaveOk, wExportOk, wCleanupOk>>

\* analysis.py:1313-1321: calculate_event_ellipsoid_shape, then the early return
ShapeStep ==
    /\ wPc = "shape"
    /\ wSteps' = Append(wSteps, "shape")
    /\ IF wEnhanced = 0
       THEN wPc' = "done" /\ wReturn' = "enhanced_results"
       ELSE wPc' = "save" /\ UNCHANGED wReturn
    /\ WorkflowFrame
    /\ UNCHANGED <<mergeVars, traceVars, pipeVars, rowVars, initVars, lensVars, scanVars, optVars, folderVars, exportVars, saveVars, buildVars>>

\* analysis.py:1324-1331: save_reconstructed_events; False only prints a warning
SaveStep ==
    /\ wPc = "save"
    /\ wSteps' = Append(wSteps, IF wSaveOk THEN "saved" ELSE "save failed")
    /\ wPc' = "export"
    /\ UNCHANGED wReturn
    /\ WorkflowFrame
    /\ UNCHANGED <<mergeVars, traceVars, pipeVars, rowVars, initVars, lensVars, scanVars, optVars, folderVars, exportVars, saveVars, buildVars>>

\* analysis.py:1334-1341: export_events; False only prints a warning
ExportStep ==
    /\ wPc = "export"
    /\ wSteps' = Append(wSteps, IF wExportOk THEN "exported" ELSE "export failed")
    /\ wPc' = "cleanup"
    /\ UNCHANGED wReturn
    /\ WorkflowFrame
    /\ UNCHANGED <<mergeVars, traceVars, pipeVars, rowVars, initVars, lensVars, scanVars, optVars, folderVars, exportVars, saveVars, buildVars>>

\* analysis.py:1344-1351: the call of cleanup_temporary_folders inside try /
\* bare except: an exception raised while its arguments are evaluated, or by
\* the call, is swallowed
CleanupStep ==
    /\ wPc = "cleanup"
    /\ wSteps' = IF NameError(CleanupArgumentNames)
                 THEN wSteps
                 ELSE Append(wSteps, "cleanup")
    /\ wPc' = "return"
    /\ UNCHANGED wReturn
    /\ WorkflowFrame
    /\ UNCHANGED <<mergeVars, traceVars, pipeVars, rowVars, initVars, lensVars, scanVars, optVars, folderVars, exportVars, saveVars, buildVars>>

\* analysis.py:1353-1356: return enhanced_results
WorkflowReturn ==
    /\ wPc = "return"
    /\ wPc' = "done"
    /\ wReturn' = "enhanced_results"
    /\ UNCHANGED wSteps
    /\ WorkflowFrame
    /\ UNCHANGED <<mergeVars, traceVars, pipeVars, rowVars, initVars, lensVars, scanVars, optVars, folderVars, exportVars, saveVars, buildVars>>

WorkflowNext ==
    ShapeStep \/ SaveStep \/ ExportStep \/ CleanupStep \/ WorkflowReturn

SpecWorkflow == WorkflowInit /\ [][WorkflowNext]_vars

\* C19: process_and_export_events computes the shape parameters, saves, exports
\* and cleans up, in this order, whether or not the save or the export failed,
\* the cleanup step invoking cleanup_temporary_folders, and returns the enhanced
\* results; when the shape step yields no events only the shape step runs.
C19_WorkflowInOrder ==
    wPc = "done" =>
        /\ wReturn = "enhanced_results"
        /\ wSteps =
            IF wEnhanced = 0 THEN <<"shape">>
            ELSE <<"shape",
                   IF wSaveOk THEN "saved" ELSE "save failed",
                   IF wExportOk THEN "exported" ELSE "export failed",
                   "cleanup">>

(***************************************************************************)
(* setup.py: BuildGeant4Simulation.run                                     *)
(***************************************************************************)
\* what the run can meet: the two include directories, the outcome of the two
\* cmake calls, the binary, the three copies, the two asset folders of build/
BuildFacts ==
    {"sslg4_include", "opsim_include", "configure_ok", "build_ok", "binary",
     "cp_lumacam_ok", "macros_dir", "cp_macros_ok", "data_dir", "cp_data_ok"}

ConfigureRaisesNever(facts) == FALSE

\* subprocess.check_call(cmake_args) raises CalledProcessError, which is re-raised
ConfigureRaises(facts) == "configure_ok" \notin facts

BuildInit ==
    /\ bFacts \in SUBSET BuildFacts
    /\ bPc = "includes"
    /\ bLog = <<>>
    /\ bError = "none"
    /\ bFailedAt = "none"
    /\ MergeIdle
    /\ TraceIdle
    /\ PipeIdle
    /\ RowsIdle
    /\ InitIdle
    /\ LensIdle
    /\ ScanIdle
    /\ OptimizeIdle
    /\ FolderIdle
    /\ ExportIdle
    /\ SaveIdle
    /\ WorkflowIdle

\* a step raises: the run ends there
Fails(step, error) ==
    /\ bPc' = "raised"
    /\ bError' = error
    /\ bFailedAt' = step

Proceeds(next) ==
    /\ bPc' = next
    /\ UNCHANGED <<bError, bFailedAt>>

\* setup.py:25-30
CheckIncludes ==
    /\ bPc = "includes"
    /\ IF {"sslg4_include", "opsim_include"} \subseteq bFacts
       THEN Proceeds("configure")
       ELSE Fails("includes", "FileNotFoundError")
    /\ UNCHANGED <<bFacts, bLog>>
    /\ UNCHANGED <<mergeVars, traceVars, pipeVars, rowVars, initVars, lensVars, scanVars, optVars, folderVars, exportVars, saveVars, flowVars>>

\* setup.py:42-47: on failure cmake is run once more to show its output
Configure ==
    /\ bPc = "configure"
    /\ IF ConfigureRaises(bFacts)
       THEN /\ bLog' = bLog \o <<"cmake configure", "cmake configure">>
            /\ Fails("configure", "CalledProcessError")
       ELSE /\ bLog' = Append(bLog, "cmake configure")
            /\ Proceeds("build")
    /\ UNCHANGED bFacts
    /\ UNCHANGED <<mergeVars, traceVars, pipeVars, rowVars, initVars, lensVars, scanVars, optVars, folderVars, exportVars, saveVars, flowVars>>

\* setup.py:50-54
Build ==
    /\ bPc = "build"
    /\ bLog' = Append(bLog, "cmake build")
    /\ IF "build_ok" \in bFacts
       THEN Proceeds("binary")
       ELSE Fails("build", "CalledProcessError")
    /\ UNCHANGED bFacts
    /\ UNCHANGED <<mergeVars, traceVars, pipeVars, rowVars, initVars, lensVars, scanVars, optVars, folderVars, exportVars, saveVars, flowVars>>

\* setup.py:57-65
CheckBinary ==
    /\ bPc = "binary"
    /\ IF "binary" \in bFacts
       THEN Proceeds("copy")
       ELSE Fails("binary", "FileNotFoundError")
    /\ UNCHANGED <<bFacts, bLog>>
    /\ UNCHANGED <<mergeVars, traceVars, pipeVars, rowVars, initVars, lensVars, scanVars, optVars, folderVars, exportVars, saveVars, flowVars>>

\* setup.py:68-80
CopyExecutable ==
    /\ bPc = "copy"
    /\ IF "cp_lumacam_ok" \in bFacts
       THEN /\ bLog' = Append(bLog, "copy lumacam")
            /\ Proceeds("macros")
       ELSE /\ UNCHANGED bLog
            /\ Fails("copy", "CalledProcessError")
    /\ UNCHANGED bFacts
    /\ UNCHANGED <<mergeVars, traceVars, pipeVars, rowVars, initVars, lensVars, scanVars, optVars, folderVars, exportVars, saveVars, flowVars>>

\* setup.py:83-88 (asset = "macros") and 91-96 (asset = "data")
CopyAssets(asset, next) ==
    IF (asset \o "_dir") \notin bFacts
    THEN UNCHANGED bLog /\ Proceeds(next)
    ELSE IF ("cp_" \o asset \o "_ok") \in bFacts
         THEN bLog' = Append(bLog, "copy " \o asset) /\ Proceeds(next)
         ELSE UNCHANGED bLog /\ Fails(asset, "CalledProcessError")

CopyMacros ==
    /\ bPc = "macros"
    /\ CopyAssets("macros", "data")
    /\ UNCHANGED bFacts
    /\ UNCHANGED <<mergeVars, traceVars, pipeVars, rowVars, initVars, lensVars, scanVars, optVars, folderVars, exportVars, saveVars, flowVars>>

CopyData ==
    /\ bPc = "data"
    /\ CopyAssets("data", "build_py")
    /\ UNCHANGED bFacts
    /\ UNCHANGED <<mergeVars, traceVars, pipeVars, rowVars, initVars, lensVars, scanVars, optVars, folderVars, exportVars, saveVars, flowVars>>

\* setup.py:99-108: the stray file is removed, then super().run()
StandardBuild ==
    /\ bPc = "build_py"
    /\ bLog' = Append(bLog, "build_py")
    /\ Proceeds("done")
    /\ UNCHANGED bFacts
    /\ UNCHANGED <<mergeVars, traceVars, pipeVars, rowVars, initVars, lensVars, scanVars, optVars, folderVars, exportVars, saveVars, flowVars>>

BuildNext ==
    \/ CheckIncludes \/ Configure \/ Build \/ CheckBinary
    \/ CopyExecutable \/ CopyMacros \/ CopyData \/ StandardBuild

SpecBuild == BuildInit /\ [][BuildNext]_vars

\* the position of the first occurrence of an entry of the log (0: none)
LogIndex(entry) ==
    IF entry \in Range(bLog)
    THEN CHOOSE i \in DOMAIN bLog :
            bLog[i] = entry /\ \A j \in 1..(i - 1) : bLog[j] # entry
    ELSE 0

\* what C20 says of the order, of the include check and of the asset copies
BuildOrder ==
    /\ "copy lumacam" \in Range(bLog) =>
        /\ {"configure_ok", "build_ok", "binary"} \subseteq bFacts
        /\ 0 < LogIndex("cmake configure")
        /\ LogIndex("cmake configure") < LogIndex("cmake build")
        /\ LogIndex("cmake build") < LogIndex("copy lumacam")
    /\ (bPc # "includes" /\ ~({"sslg4_include", "opsim_include"} \subseteq bFacts)) =>
        (bPc = "raised" /\ bError = "FileNotFoundError" /\ bLog = <<>>)
    /\ "copy macros" \in Range(bLog) => "macros_dir" \in bFacts
    /\ "copy data" \in Range(bLog) => "data_dir" \in bFacts

\* C20 as stated: the executable is installed only after configuration, build
\* and existence check, in that order; a missing include directory fails with
\* FileNotFoundError before CMake is invoked; if any step fails no executable is
\* copied and the standard build step is not run; macros and data are copied
\* only when their build folders exist.
C20_NothingCopiedOnFailure ==
    /\ BuildOrder
    /\ bPc = "raised" =>
        /\ "copy lumacam" \notin Range(bLog)
        /\ "build_py" \notin Range(bLog)

\* C20 amended: no executable is copied if the include check, the
\* configuration, the build or the existence check fails (or the copy itself);
\* if any step fails, the copies of macros and data included, the standard
\* build step is not run.
C20_InstallOnlyAfterBuild ==
    /\ BuildOrder
    /\ bPc = "raised" =>
        /\ "build_py" \notin Range(bLog)
        /\ bFailedAt \in {"includes", "configure", "build", "binary", "copy"} =>
                "copy lumacam" \notin Range(bLog)
    /\ bPc = "done" =>
        /\ "copy lumacam" \in Range(bLog)
        /\ bLog[Len(bLog)] = "build_py"

\* a complete run that copied the executable and the macros, found no data
\* folder, and ran the standard build step
C20_Witness ==
    /\ bPc = "done"
    /\ bLog = <<"cmake configure", "cmake build", "copy lumacam", "copy macros", "build_py">>
    /\ "data_dir" \notin bFacts

====
